------------------------------ MODULE Partition ------------------------------
(***************************************************************************)
(* One instrument's partition (exchange_routing/Partition, WorkerThread)    *)
(* with the components only its worker thread writes: OrderManager,         *)
(* OrderBook, Matcher, RiskManager; the repositories' task queue and the    *)
(* DatabaseWorker thread that drains it; and the callers of                 *)
(* TradingCore::submitCommand that fill the command queue.                  *)
(*                                                                         *)
(* Three kinds of thread interleave: submitters, the worker and the         *)
(* database worker.  The worker handles one command in several steps (take  *)
(* it, one step per fill of the matching loop, one per trade settled, the   *)
(* final rest-or-remove) because submitters look into the OrderManager, and *)
(* a crash may strike, between any two of them.                             *)
(***************************************************************************)
EXTENDS OrderBook

CONSTANTS
  ClientOrders,  \* the new orders clients send, as constructed
  QueueCapacity, \* capacity of the SPSC command queue (262144 in the code)
  BatchSize,     \* WorkerThread::BATCH_SIZE (64 in the code)
  AmendKinds,    \* which of "Cancel", "Modify" the clients send
  MaxAmends,     \* bound on the cancel and modify commands submitted
  MaxDbQueue     \* bound: no command step starts with this many tasks queued

ASSUME PartitionAssumption ==
  /\ \A o \in ClientOrders : o \in Order /\ o.rem = o.orig /\ o.status = "New"
  /\ QueueCapacity \in Nat \ {0}
  /\ BatchSize \in Nat \ {0}
  /\ AmendKinds \subseteq {"Cancel", "Modify"}
  /\ MaxAmends \in Nat
  /\ MaxDbQueue \in Nat \ {0}

VARIABLES
  orders,      \* OrderManager::mOrderMap, NoOrder where it has no entry
  book,        \* OrderBook: the bid and ask maps
  queue,       \* mCommandQueue
  batch,       \* the dequeued commands the worker has not processed yet
  worker,      \* the locals of the running process* function
  tradeId,     \* TradeIDGenerator::mCurrentId
  orderId,     \* OrderIDGenerator::mCurrentId
  dbQueue,     \* DatabaseWorker::mTasks
  dbOrders,    \* the orders table
  dbTrades,    \* the trades table
  told,        \* what the execution reports have said of each order
  amends       \* cancel and modify commands submitted so far (bound)

vars == <<orders, book, queue, batch, worker, tradeId, orderId,
          dbQueue, dbOrders, dbTrades, told, amends>>

workerVars == <<orders, book, batch, worker, tradeId, told>>
dbVars     == <<dbQueue, dbOrders, dbTrades>>

Task == [op : {"save", "update"}, id : OrderId, order : Order]
          \cup [op : {"remove"}, id : OrderId]
          \cup [op : {"trade"}, trade : Trade]

Worker == [pc     : {"idle", "match", "settle"},
           kind   : {"New", "Modify"},
           id     : 0..MaxOrders,
           trades : Seq(Trade)]

(* What its owner knows of an order, and how many cancels and modifications  *)
(* of it have been answered; a refusal goes to whoever sent the amendment.   *)
Told == [state   : {"nothing", "open", "closed", "rejected"},
         leaves  : Nat,
         answers : Nat]

Untold == [state |-> "nothing", leaves |-> 0, answers |-> 0]

Live(id)  == orders[id] # NoOrder
Managed   == {id \in OrderId : Live(id)}
IdleState == [pc |-> "idle", kind |-> "New", id |-> 0, trades |-> << >>]

Init ==
  /\ orders = [i \in OrderId |-> NoOrder]
  /\ book = EmptyBook
  /\ queue = << >>
  /\ batch = << >>
  /\ worker = IdleState
  /\ tradeId = 0
  /\ orderId = 0
  /\ dbQueue = << >>
  /\ dbOrders = [i \in OrderId |-> NoOrder]
  /\ dbTrades = {}
  /\ told = [i \in OrderId |-> Untold]
  /\ amends = 0

-----------------------------------------------------------------------------
(* Execution reports and repository calls.                                  *)

(* publishExecution and publishTrade report the order's own quantities; t is *)
(* what was reported before.                                                 *)
ReportNew(t, o)     == [t EXCEPT !.state = "open", !.leaves = o.rem]
ReportReplace(t, o) == [t EXCEPT !.state = "open", !.leaves = o.rem, !.answers = @ + 1]
ReportCancel(t, o)  == [t EXCEPT !.state = "closed", !.leaves = o.rem, !.answers = @ + 1]

(* Mutant of ReportFill: every fill is reported as the last one.            *)
MutReportFill(t, o) == [t EXCEPT !.state = "closed", !.leaves = o.rem]

(* publishTrade reports the order's status: Filled ends it for the client.  *)
ReportFill(t, o) ==
  [t EXCEPT !.state = IF o.status = "Filled" THEN "closed" ELSE "open",
            !.leaves = o.rem]

(* publishRejection: of a new order, to its owner; of an amendment, to its   *)
(* sender, with a text of its own, which leaves the order as it was.         *)
ReportReject(t) == [t EXCEPT !.state = "rejected"]
ReportRefuse(t) == [t EXCEPT !.answers = @ + 1]

saveOrder(id, o)   == [op |-> "save", id |-> id, order |-> o]
updateOrder(id, o) == [op |-> "update", id |-> id, order |-> o]
removeOrder(id)    == [op |-> "remove", id |-> id]
addTrade(t)        == [op |-> "trade", trade |-> t]

Persist(tasks) ==
  /\ Len(dbQueue) < MaxDbQueue
  /\ dbQueue' = dbQueue \o tasks
  /\ UNCHANGED <<dbOrders, dbTrades>>

-----------------------------------------------------------------------------
(* Submitters: TradingCore::submitCommand and Partition::enqueue.           *)

(* try_push fails on a full queue; the command is then only logged.         *)
Enqueue(c) ==
  queue' = IF Len(queue) < QueueCapacity THEN Append(queue, c) ELSE queue

(* Mutant of SubmitNew: the id counter is not atomic and loses an update.   *)
MutSubmitNew ==
  /\ orderId < MaxOrders
  /\ \E o \in ClientOrders :
       Enqueue([kind |-> "New", id |-> orderId + 1, order |-> o])
  /\ orderId' \in {orderId, orderId + 1}
  /\ UNCHANGED <<workerVars, dbVars, amends>>

SubmitNew ==
  /\ orderId < MaxOrders
  /\ \E o \in ClientOrders :
       Enqueue([kind |-> "New", id |-> orderId + 1, order |-> o])
  /\ orderId' = orderId + 1
  /\ UNCHANGED <<workerVars, dbVars, amends>>

(* findPartitionForOrder reads the OrderManager on the submitter's thread,  *)
(* unsynchronised: while the worker runs the lookup may find an id that is  *)
(* going away.  An id that is not found is dropped, which changes nothing.  *)
SubmitAmend ==
  /\ amends < MaxAmends
  /\ \E c \in [kind : AmendKinds \cap {"Cancel"}, id : 1..orderId]
              \cup [kind : AmendKinds \cap {"Modify"}, id : 1..orderId,
                    price : Prices, qty : Quantities] :
       /\ Live(c.id) \/ worker.pc # "idle"
       /\ Enqueue(c)
  /\ amends' = amends + 1
  /\ UNCHANGED <<workerVars, dbVars, orderId>>

-----------------------------------------------------------------------------
(* WorkerThread: the command loop.                                          *)

(* processNextCommand drains up to BATCH_SIZE commands.                     *)
FetchBatch ==
  /\ worker.pc = "idle" /\ batch = << >> /\ queue # << >>
  /\ LET n == IF Len(queue) < BatchSize THEN Len(queue) ELSE BatchSize
     IN /\ batch' = SubSeq(queue, 1, n)
        /\ queue' = SubSeq(queue, n + 1, Len(queue))
  /\ UNCHANGED <<orders, book, worker, tradeId, orderId, told, dbVars, amends>>

Cmd == Head(batch)

(* The worker takes the next command of the batch.                          *)
Take(kind) ==
  /\ worker.pc = "idle" /\ batch # << >>
  /\ Cmd.kind = kind
  /\ batch' = Tail(batch)
  /\ UNCHANGED <<queue, tradeId, orderId, amends>>

Matching(kind, id) == [pc |-> "match", kind |-> kind, id |-> id, trades |-> << >>]

(* processNewOrder, the risk check failed: the order object dies unsaved.   *)
RejectNew ==
  /\ Take("New")
  /\ ~preCheck(book, orders, Cmd.order)
  /\ told' = [told EXCEPT ![Cmd.id] = ReportReject(@)]
  /\ UNCHANGED <<orders, book, worker, dbVars>>

(* processNewOrder up to the call of match.                                 *)
AcceptNew ==
  /\ Take("New")
  /\ preCheck(book, orders, Cmd.order)
  /\ orders' = [orders EXCEPT ![Cmd.id] = Cmd.order]
  /\ Persist(<<saveOrder(Cmd.id, Cmd.order)>>)
  /\ told' = [told EXCEPT ![Cmd.id] = ReportNew(@, Cmd.order)]
  /\ worker' = Matching("New", Cmd.id)
  /\ UNCHANGED book

(* processCancelOrder and processModifyOrder, order not found.              *)
RejectUnknown ==
  /\ Take("Cancel") \/ Take("Modify")
  /\ ~Live(Cmd.id)
  /\ told' = [told EXCEPT ![Cmd.id] = ReportRefuse(@)]
  /\ UNCHANGED <<orders, book, worker, dbVars>>

(* processCancelOrder of an order the book holds.                           *)
CancelResting ==
  /\ Take("Cancel")
  /\ Live(Cmd.id) /\ Resting(book, Cmd.id)
  /\ book' = cancelOrder(book, Cmd.id)
  /\ told' = [told EXCEPT ![Cmd.id] = ReportCancel(@, orders[Cmd.id])]
  /\ Persist(<<removeOrder(Cmd.id)>>)
  /\ orders' = [orders EXCEPT ![Cmd.id] = NoOrder]
  /\ UNCHANGED worker

(* Mutant of RejectCancel: publishRejection is forgotten.                   *)
MutRejectCancel ==
  /\ Take("Cancel")
  /\ Live(Cmd.id) /\ ~Resting(book, Cmd.id)
  /\ UNCHANGED <<orders, book, worker, told, dbVars>>

(* processCancelOrder of an order the manager has and the book has not.     *)
RejectCancel ==
  /\ Take("Cancel")
  /\ Live(Cmd.id) /\ ~Resting(book, Cmd.id)
  /\ told' = [told EXCEPT ![Cmd.id] = ReportRefuse(@)]
  /\ UNCHANGED <<orders, book, worker, dbVars>>

(* Mutant of Replaced: setStatus is forgotten.                              *)
MutReplaced(o, c) == [o EXCEPT !.price = c.price, !.orig = c.qty, !.rem = c.qty]

(* setPrice, setOriginalQuantity (which resets the remaining quantity too)  *)
(* and setStatus.                                                           *)
Replaced(o, c) ==
  [o EXCEPT !.price = c.price, !.orig = c.qty, !.rem = c.qty, !.status = "New"]

(* Mutant of StartModify: saveOrder is called before removeOrder.           *)
MutStartModify ==
  /\ Take("Modify")
  /\ Live(Cmd.id)
  /\ LET o == Replaced(orders[Cmd.id], Cmd)
     IN /\ orders' = [orders EXCEPT ![Cmd.id] = o]
        /\ Persist(<<saveOrder(Cmd.id, o), removeOrder(Cmd.id)>>)
        /\ told' = [told EXCEPT ![Cmd.id] = ReportReplace(@, o)]
  /\ book' = cancelOrder(book, Cmd.id)
  /\ worker' = Matching("Modify", Cmd.id)

(* processModifyOrder up to the call of match; there is no risk check.      *)
StartModify ==
  /\ Take("Modify")
  /\ Live(Cmd.id)
  /\ LET o == Replaced(orders[Cmd.id], Cmd)
     IN /\ orders' = [orders EXCEPT ![Cmd.id] = o]
        /\ Persist(<<removeOrder(Cmd.id), saveOrder(Cmd.id, o)>>)
        /\ told' = [told EXCEPT ![Cmd.id] = ReportReplace(@, o)]
  /\ book' = cancelOrder(book, Cmd.id)
  /\ worker' = Matching("Modify", Cmd.id)

-----------------------------------------------------------------------------
(* Matcher::matchTable.                                                     *)

Incoming == orders[worker.id]

(* The loop condition: quantity is left and the best opposite level, of     *)
(* price p, is within the incoming order's limit.                           *)
CanFillAt(p) ==
  /\ worker.pc = "match"
  /\ Incoming.rem > 0
  /\ IsBest(book, Opposite(Incoming.side), p)
  /\ Crosses(Incoming, p)

NewTrade(resting, qty) ==
  [id    |-> tradeId + 1,
   buy   |-> IF Incoming.side = "Buy" THEN worker.id ELSE resting,
   sell  |-> IF Incoming.side = "Buy" THEN resting ELSE worker.id,
   qty   |-> qty,
   price |-> orders[resting].price]

(* Mutant of FillResting: a partial fill does not reduce the quantity.      *)
MutFillResting(o, qty) ==
  IF o.rem = qty THEN [o EXCEPT !.rem = 0, !.status = "Filled"]
                 ELSE [o EXCEPT !.status = "PartiallyFilled"]

(* setRemainingQuantity, then setStatus of the resting order.               *)
FillResting(o, qty) ==
  [o EXCEPT !.rem = o.rem - qty,
            !.status = IF o.rem = qty THEN "Filled" ELSE "PartiallyFilled"]

FillIncoming(o, qty) ==
  [o EXCEPT !.rem = o.rem - qty, !.status = "PartiallyFilled"]

(* Mutant of FillQty: the incoming quantity, not the smaller of the two.    *)
MutFillQty(a, b) == a.rem

FillQty(a, b) == IF a.rem < b.rem THEN a.rem ELSE b.rem

(* Mutant of PopFilled: pop_front is forgotten.                             *)
MutPopFilled(level, o, qty) == level

(* A filled resting order leaves the front of its level.                    *)
PopFilled(level, o, qty) == IF o.rem = qty THEN Tail(level) ELSE level

(* One iteration of the inner loop: a trade with the front of the level.    *)
FillAt(p) ==
  LET side    == Opposite(Incoming.side)
      resting == Head(book[side][p])
      qty     == FillQty(Incoming, orders[resting])
  IN /\ CanFillAt(p)
     /\ tradeId' = tradeId + 1
     /\ worker' = [worker EXCEPT !.trades = Append(@, NewTrade(resting, qty))]
     /\ orders' = [orders EXCEPT ![worker.id] = FillIncoming(@, qty),
                                 ![resting] = FillResting(@, qty)]
     /\ book' = [book EXCEPT ![side][p] = PopFilled(@, orders[resting], qty)]
     /\ UNCHANGED <<queue, batch, orderId, dbVars, told, amends>>

Fill == \E p \in Prices : FillAt(p)

FinalStatus(o) ==
  IF o.rem = 0 THEN "Filled"
  ELSE IF o.type = "Market" /\ o.orig = o.rem THEN "Cancelled"
  ELSE o.status

(* Mutants of Exhausted: the loop ends after its first trade; the loop does *)
(* not test the remaining quantity.                                         *)
MutExhaustedEarly(o) ==
  \/ o.rem = 0 \/ worker.trades # << >>
  \/ \A p \in Levels(book, Opposite(o.side)) : ~Crosses(o, p)

MutExhaustedLate(o) == \A p \in Levels(book, Opposite(o.side)) : ~Crosses(o, p)

(* The incoming order is filled, or the book has no level it may trade with  *)
(* (the best one does not cross exactly when none does).                    *)
Exhausted(o) ==
  o.rem = 0 \/ \A p \in Levels(book, Opposite(o.side)) : ~Crosses(o, p)

(* The loop ends; the caller goes on to the list of trades.                 *)
EndMatch ==
  /\ worker.pc = "match"
  /\ Exhausted(Incoming)
  /\ orders' = [orders EXCEPT ![worker.id].status = FinalStatus(Incoming)]
  /\ worker' = [worker EXCEPT !.pc = "settle"]
  /\ UNCHANGED <<book, queue, batch, tradeId, orderId, dbVars, told, amends>>

-----------------------------------------------------------------------------
(* The loop over the trades, and what becomes of the incoming order.        *)

(* Mutant of PostTrade: the call moves under the test for the two orders.   *)
MutPostTrade(t) ==
  IF worker.kind = "New" /\ Live(t.buy) /\ Live(t.sell)
  THEN <<addTrade(t)>> ELSE << >>

(* Only processNewOrder calls postTradeUpdate.                              *)
PostTrade(t) == IF worker.kind = "New" THEN <<addTrade(t)>> ELSE << >>

(* Mutant of RemoveIfFilled: the repository is not told.                    *)
MutRemoveIfFilled(id) == << >>

RemoveIfFilled(id) == IF orders[id].rem = 0 THEN <<removeOrder(id)>> ELSE << >>

(* One iteration of the loop over the trades.                               *)
SettleTrade ==
  /\ worker.pc = "settle" /\ worker.trades # << >>
  /\ LET t == Head(worker.trades)
     IN /\ Live(t.buy) /\ Live(t.sell)
        /\ Persist(PostTrade(t)
                     \o <<updateOrder(t.buy, orders[t.buy]),
                          updateOrder(t.sell, orders[t.sell])>>
                     \o RemoveIfFilled(t.buy) \o RemoveIfFilled(t.sell))
        /\ told' = [told EXCEPT ![t.buy] = ReportFill(@, orders[t.buy]),
                                ![t.sell] = ReportFill(@, orders[t.sell])]
        /\ orders' = [i \in OrderId |->
                        IF i \in {t.buy, t.sell} /\ orders[i].rem = 0
                        THEN NoOrder ELSE orders[i]]
  /\ worker' = [worker EXCEPT !.trades = Tail(@)]
  /\ UNCHANGED <<book, queue, batch, tradeId, orderId, amends>>

(* One of the two orders is gone from the manager: nothing but the trade    *)
(* table hears of the trade.                                                *)
SkipTrade ==
  /\ worker.pc = "settle" /\ worker.trades # << >>
  /\ LET t == Head(worker.trades)
     IN /\ ~(Live(t.buy) /\ Live(t.sell))
        /\ Persist(PostTrade(t))
  /\ worker' = [worker EXCEPT !.trades = Tail(@)]
  /\ UNCHANGED <<orders, book, queue, batch, tradeId, orderId, told, amends>>

Settled == worker.pc = "settle" /\ worker.trades = << >>

(* insertOrder at the end of processNewOrder and processModifyOrder.        *)
MayRest == Live(worker.id) /\ Incoming.rem > 0
             /\ (worker.kind = "New" => Incoming.type = "Limit")

RestIncoming ==
  /\ Settled
  /\ MayRest
  /\ book' = insertOrder(book, worker.id, Incoming)
  /\ worker' = IdleState
  /\ UNCHANGED <<orders, queue, batch, tradeId, orderId, dbVars, told, amends>>

(* A market order's remainder, or an order modified to quantity 0.          *)
MustRemove == Live(worker.id)
                /\ IF worker.kind = "New" THEN Incoming.type = "Market"
                                          ELSE Incoming.rem = 0

RemoveIncoming ==
  /\ Settled
  /\ MustRemove
  /\ Persist(<<removeOrder(worker.id)>>)
  /\ orders' = [orders EXCEPT ![worker.id] = NoOrder]
  /\ worker' = IdleState
  /\ UNCHANGED <<book, queue, batch, tradeId, orderId, told, amends>>

IncomingDone ==
  /\ Settled
  /\ ~MayRest /\ ~MustRemove
  /\ worker' = IdleState
  /\ UNCHANGED <<orders, book, queue, batch, tradeId, orderId, dbVars, told, amends>>

-----------------------------------------------------------------------------
(* DatabaseWorker::workerLoop runs one task.                                *)

(* The SQL of one order task.  INSERT of an existing key fails and is only  *)
(* logged; UPDATE of a missing row changes nothing.                         *)
OrderRow(row, task) ==
  CASE task.op = "save"   -> IF row = NoOrder THEN task.order ELSE row
    [] task.op = "update" -> IF row = NoOrder THEN row
                             ELSE [row EXCEPT !.rem = task.order.rem,
                                              !.status = task.order.status]
    [] task.op = "remove" -> NoOrder

RunOrderTask ==
  /\ dbQueue # << >>
  /\ Head(dbQueue).op # "trade"
  /\ dbOrders' = [dbOrders EXCEPT ![Head(dbQueue).id] = OrderRow(@, Head(dbQueue))]
  /\ dbQueue' = Tail(dbQueue)
  /\ UNCHANGED <<workerVars, queue, orderId, dbTrades, amends>>

(* trade_id is the key of the trades table.                                 *)
RunTradeTask ==
  /\ dbQueue # << >>
  /\ Head(dbQueue).op = "trade"
  /\ LET t == Head(dbQueue).trade
     IN dbTrades' = IF \E u \in dbTrades : u.id = t.id THEN dbTrades
                    ELSE dbTrades \cup {t}
  /\ dbQueue' = Tail(dbQueue)
  /\ UNCHANGED <<workerVars, queue, orderId, dbOrders, amends>>

-----------------------------------------------------------------------------
WorkerStep ==
  \/ FetchBatch
  \/ RejectNew \/ AcceptNew
  \/ RejectUnknown \/ CancelResting \/ RejectCancel \/ StartModify
  \/ Fill \/ EndMatch
  \/ SettleTrade \/ SkipTrade
  \/ RestIncoming \/ RemoveIncoming \/ IncomingDone

DbStep == RunOrderTask \/ RunTradeTask

Next == SubmitNew \/ SubmitAmend \/ WorkerStep \/ DbStep

Spec == Init /\ [][Next]_vars

(* Both threads loop until they are stopped.                                *)
FairSpec == Spec /\ WF_vars(WorkerStep) /\ WF_vars(DbStep)

-----------------------------------------------------------------------------
(* Invariants.                                                              *)

(* Every variable holds a value of its C++ type, bounds included.           *)
TypeOK ==
  /\ orders \in [OrderId -> Order \cup {NoOrder}]
  /\ book \in Book
  /\ queue \in Seq(Command) /\ batch \in Seq(Command)
  /\ worker \in Worker
  /\ tradeId \in Nat /\ orderId \in 0..MaxOrders /\ amends \in 0..MaxAmends
  /\ dbQueue \in Seq(Task)
  /\ dbOrders \in [OrderId -> Order \cup {NoOrder}]
  /\ dbTrades \subseteq Trade
  /\ told \in [OrderId -> Told]

(* Every raw pointer in the book is to an order the OrderManager owns, on   *)
(* the order's own side and price, with quantity left: no step of the       *)
(* worker dereferences a destroyed order or rests a filled one.             *)
PointersLive ==
  \A s \in Side, p \in Prices : \A i \in DOMAIN book[s][p] :
    LET id == book[s][p][i]
    IN /\ Live(id)
       /\ orders[id].side = s /\ orders[id].price = p
       /\ orders[id].rem > 0

(* No order stands twice in the book, so that one cancel or one complete    *)
(* fill takes it out for good.                                              *)
RestsOnce ==
  \A s \in Side, p \in Prices : \A i, j \in DOMAIN book[s][p] :
    book[s][p][i] = book[s][p][j] => i = j

BookIntegrity == PointersLive /\ RestsOnce

(* The resting orders never cross: insertOrder runs only after the matcher  *)
(* has exhausted every opposite level the order could trade with.           *)
BookUncrossed ==
  \A b \in Levels(book, "Buy"), a \in Levels(book, "Sell") : b < a

Pending == batch \o queue

(* The id of a new order still in the queue or the batch is not in use and  *)
(* no earlier command names it, so OrderManager::addOrder never refuses     *)
(* (and destroys) the order whose raw pointer processNewOrder goes on       *)
(* using, and no client hears of an order before it is processed.           *)
NewIdsFresh ==
  \A i \in DOMAIN Pending :
    Pending[i].kind = "New" =>
      /\ ~Live(Pending[i].id)
      /\ told[Pending[i].id].state = "nothing"
      /\ \A j \in 1..(i - 1) : Pending[j].id # Pending[i].id

(* An order a client was told is filled, cancelled or rejected is gone from  *)
(* the manager (and so from the book, which holds managed orders only).      *)
ToldDoneIsDone ==
  \A id \in OrderId : told[id].state \in {"closed", "rejected"} => ~Live(id)

(* The locals of a running process* function: the order it works on is out  *)
(* of the book, alive while it is matched, open to its owner while alive,   *)
(* and has nothing left to trade with once the matcher is done.             *)
WorkerInv ==
  worker.pc # "idle" =>
    /\ worker.id \in OrderId
    /\ ~Resting(book, worker.id)
    /\ worker.pc = "match" => Live(worker.id)
    /\ Live(worker.id) => told[worker.id].state = "open"
    /\ worker.pc = "settle" /\ Live(worker.id) => Exhausted(Incoming)

(* Status and quantity agree, only ids the generator has handed out are in  *)
(* use, and the queue does not alter an order.                              *)
OrdersInv ==
  /\ \A id \in OrderId : Live(id) =>
       /\ orders[id].status = "Filled" => orders[id].rem = 0
       /\ id <= orderId
  /\ \A id \in OrderId : told[id].state # "nothing" => id <= orderId
  /\ \A i \in DOMAIN Pending :
       /\ Pending[i].id <= orderId
       /\ Pending[i].kind = "New" => Pending[i].order \in ClientOrders

(* The part of these that holds however the partition was started: it speaks *)
(* neither of the reports nor of an uncrossed book, which a crash may leave  *)
(* wrong.                                                                    *)
IdsFree ==
  \A i \in DOMAIN Pending :
    Pending[i].kind = "New" =>
      /\ ~Live(Pending[i].id)
      /\ \A j \in 1..(i - 1) : Pending[j].id # Pending[i].id

WorkerHolds ==
  worker.pc # "idle" =>
    /\ worker.id \in OrderId
    /\ ~Resting(book, worker.id)
    /\ worker.pc = "match" => Live(worker.id)

OrdersKnown ==
  /\ \A id \in OrderId : Live(id) =>
       /\ orders[id].status = "Filled" => orders[id].rem = 0
       /\ id <= orderId
  /\ \A i \in DOMAIN Pending :
       /\ Pending[i].id <= orderId
       /\ Pending[i].kind = "New" => Pending[i].order \in ClientOrders

CoreInv ==
  /\ TypeOK /\ PointersLive /\ RestsOnce
  /\ IdsFree /\ WorkerHolds /\ OrdersKnown

(* The inductive strengthening of the safety invariants above.              *)
IndInv ==
  /\ TypeOK
  /\ PointersLive /\ RestsOnce /\ BookUncrossed
  /\ NewIdsFresh /\ ToldDoneIsDone
  /\ WorkerInv /\ OrdersInv

(* What the reports rest on: an order in the manager is open to its owner,   *)
(* who knows at least the quantity it still has, an order with none left is  *)
(* marked filled once the matcher is done with it, and a trade not settled   *)
(* yet is between two orders.                                                *)
ReportsInv ==
  /\ \A id \in OrderId : Live(id) =>
       /\ told[id].state = "open"
       /\ orders[id].rem <= told[id].leaves
       /\ orders[id].rem = 0 /\ ~(worker.pc = "match" /\ id = worker.id) =>
            orders[id].status = "Filled"
  /\ \A i \in DOMAIN worker.trades :
       LET t == worker.trades[i]
       IN t.buy # t.sell

(* The prices a pass of a new limit order has traded at and may still trade  *)
(* at: all between the first one, from which the order's own price deviates  *)
(* by 10% at most, and the order's price.                                    *)
Sweep(top) ==
  LET s == Opposite(Incoming.side)
  IN /\ top > 0 /\ Crosses(Incoming, top)
     /\ 10 * (IF Incoming.price > top THEN Incoming.price - top
                                      ELSE top - Incoming.price) <= top
     /\ \A p \in Levels(book, s) : ~Better(s, p, top)
     /\ \A i \in DOMAIN worker.trades :
          /\ Crosses(Incoming, worker.trades[i].price)
          /\ ~Better(s, worker.trades[i].price, top)

(* What preCheck establishes lasts for the whole matching pass of a new      *)
(* order: nothing it can reach belongs to its own trader, and its sweep      *)
(* stays within the collar of the best price it was checked against.         *)
NoOwnInReach ==
  worker.pc = "match" /\ worker.kind = "New" => ~SelfMatch(book, orders, Incoming)

InCollar ==
  worker.pc = "match" /\ worker.kind = "New" /\ Incoming.type = "Limit" =>
    IF worker.trades = << >> THEN ~FatFinger(book, Incoming)
                             ELSE Sweep(worker.trades[1].price)

(* Only positive prices rest in the book, or are about to.                   *)
PositivePrices ==
  /\ \A s \in Side : \A p \in Levels(book, s) : p > 0
  /\ worker.pc # "idle" /\ Live(worker.id) /\ Incoming.type = "Limit" =>
       Incoming.price > 0

(* No modify command is on its way or under way.                             *)
NoModifies ==
  /\ worker.kind = "New"
  /\ \A i \in DOMAIN Pending : Pending[i].kind # "Modify"

(* The trades made, wherever they are on their way to the trades table.     *)
QueuedTrades(q) == {q[i].trade : i \in {j \in DOMAIN q : q[j].op = "trade"}}

AllTrades ==
  dbTrades \cup QueuedTrades(dbQueue)
    \cup {worker.trades[i] : i \in DOMAIN worker.trades}

(* The trades made are exactly one for each id handed out, so none is lost   *)
(* on its way and the key of the trades table refuses none.                  *)
TradeIdsKept ==
  /\ {t.id : t \in AllTrades} = 1..tradeId
  /\ \A t, u \in AllTrades : t.id = u.id => t = u

(* What the trades of a set say an order has traded.                        *)
Traded(id, trades) ==
  MapThenSumSet(LAMBDA t : t.qty, {t \in trades : id \in {t.buy, t.sell}})

(* A trade is between orders that were entered before it, and together the   *)
(* trades explain every unit an open order has lost.                         *)
PartiesKnown ==
  \A t \in AllTrades : \A id \in {t.buy, t.sell} :
    /\ id <= orderId
    /\ \A i \in DOMAIN Pending : Pending[i].kind = "New" => Pending[i].id # id

SumsAgree ==
  \A id \in Managed : orders[id].orig - orders[id].rem = Traded(id, AllTrades)

Ledger == PartiesKnown /\ SumsAgree

(* The tasks of queue q that decide what the row of an order id will be once *)
(* the database worker has run them all: the saves and updates with no       *)
(* remove of id behind them; the row itself if no remove is queued.          *)
NoRemoveAfter(q, k, id) ==
  \A j \in DOMAIN q : j > k => ~(q[j].op = "remove" /\ q[j].id = id)

Decides(q, i, id) ==
  q[i].op \in {"save", "update"} /\ q[i].id = id /\ NoRemoveAfter(q, i, id)

RowStays(q, row, id) == row # NoOrder /\ NoRemoveAfter(q, 0, id)

(* There will be no row of id.                                               *)
NotStored(q, row, id) ==
  ~RowStays(q, row, id) /\ \A i \in DOMAIN q : ~Decides(q, i, id)

(* There will be one.                                                        *)
Stored(q, row, id) ==
  RowStays(q, row, id) \/ \E i \in DOMAIN q : Decides(q, i, id) /\ q[i].op = "save"

SameTerms(a, b) ==
  /\ a.owner = b.owner /\ a.side = b.side /\ a.type = b.type
  /\ a.price = b.price /\ a.orig = b.orig

(* The stored copy a may lag behind the order b and is never ahead of it.    *)
NotAhead(a, b) ==
  a.rem >= b.rem /\ (b.type = "Limit" => a.status \in {"New", "PartiallyFilled"})

(* It will have the terms of the order o.                                    *)
Agrees(q, row, o, id) ==
  /\ RowStays(q, row, id) => SameTerms(row, o) /\ NotAhead(row, o)
  /\ \A i \in DOMAIN q : Decides(q, i, id) =>
       /\ NotAhead(q[i].order, o)
       /\ q[i].op = "save" => SameTerms(q[i].order, o)

(* At every moment the rows there will be are those of the orders there are, *)
(* and a market order lives in its own pass only.                            *)
RowsInv ==
  \A id \in OrderId :
    IF Live(id)
    THEN /\ Stored(dbQueue, dbOrders[id], id)
         /\ Agrees(dbQueue, dbOrders[id], orders[id], id)
         /\ orders[id].type = "Limit" => orders[id].status # "Cancelled"
         /\ orders[id].type = "Market" =>
              worker.pc # "idle" /\ worker.id = id /\ worker.kind = "New"
    ELSE NotStored(dbQueue, dbOrders[id], id)

Idle    == worker.pc = "idle"
Drained == Idle /\ dbQueue = << >>

(* Once the database worker has caught up, the orders table has a row for   *)
(* exactly the orders the manager holds, and a resting order's row agrees   *)
(* with it in everything but possibly its progress.                         *)
RowsAreManaged ==
  Drained =>
    \A id \in OrderId :
      /\ dbOrders[id] # NoOrder <=> Live(id)
      /\ Resting(book, id) =>
           /\ dbOrders[id].status \in {"New", "PartiallyFilled"}
           /\ dbOrders[id].rem >= orders[id].rem
           /\ \A f \in {"owner", "side", "type", "price", "orig"} :
                dbOrders[id][f] = orders[id][f]

(* No trade of the matching pass has the same trader on both sides.         *)
NoSelfTrade ==
  worker.pc = "match" =>
    \A i \in DOMAIN worker.trades :
      orders[worker.trades[i].buy].owner # orders[worker.trades[i].sell].owner

(* No trade is executed outside the limit of either party.                  *)
WithinLimit(id, price) ==
  orders[id].type = "Limit" =>
    IF orders[id].side = "Buy" THEN price <= orders[id].price
                               ELSE price >= orders[id].price

TradesWithinLimits ==
  worker.pc = "match" =>
    \A i \in DOMAIN worker.trades :
      LET t == worker.trades[i]
      IN /\ t.qty > 0
         /\ WithinLimit(t.buy, t.price) /\ WithinLimit(t.sell, t.price)

(* The price collar: a new limit order never trades, in its whole matching  *)
(* pass, further than MAX_PRICE_DEVIATION from the price at the top of the  *)
(* book when it was checked, however many levels it sweeps.                 *)
CollarHolds ==
  worker.pc = "match" /\ worker.kind = "New" /\ Incoming.type = "Limit" =>
    \A i \in DOMAIN worker.trades :
      LET top == worker.trades[1].price
          p   == worker.trades[i].price
      IN 10 * (IF p > top THEN p - top ELSE top - p) <= top

(* Once the database worker has caught up, every trade id handed out is in  *)
(* the trades table.                                                        *)
EveryTradePersisted == Drained => {t.id : t \in dbTrades} = 1..tradeId

(* Once the database worker has caught up, the trades table explains every  *)
(* unit an open order has lost since it was entered.                        *)
TradesReconcile ==
  Drained =>
    \A id \in Managed : orders[id].orig - orders[id].rem = Traded(id, dbTrades)

-----------------------------------------------------------------------------
(* What the documentation claims and the code does not do.  (NoSelfTrade and *)
(* EveryTradePersisted hold as long as nobody modifies an order.)            *)

(* Between commands every open order's owner knows its remaining quantity.  *)
EveryFillReported ==
  Idle => \A id \in Managed : told[id].leaves = orders[id].rem

-----------------------------------------------------------------------------
(* Action and temporal properties.                                          *)

(* a has priority over b: better price, or same price and earlier.          *)
Ahead(bk, a, b) ==
  \E s \in Side, p, q \in Prices :
    \E i \in DOMAIN bk[s][p], j \in DOMAIN bk[s][q] :
      /\ bk[s][p][i] = a /\ bk[s][q][j] = b
      /\ Better(s, p, q) \/ (p = q /\ i < j)

(* The step made a trade and id is a party to it.                           *)
Hit(id) == tradeId' # tradeId
             /\ id \in {Last(worker'.trades).buy, Last(worker'.trades).sell}

(* Price-time priority, whatever the interleaving of commands: no resting   *)
(* order is hit while another has priority over it, two orders that stay in *)
(* the book keep their order, and a newcomer queues behind its whole level. *)
PriceTimePriority ==
  [][\A a, b \in OrderId :
       /\ Ahead(book, a, b) =>
            /\ ~Hit(b)
            /\ Resting(book', a) /\ Resting(book', b) => Ahead(book', a, b)
       /\ ~Resting(book, a) /\ Resting(book, b) /\ Ahead(book', a, b) =>
            orders'[a].price # orders'[b].price]_vars

(* An id whose order is gone (filled, cancelled, removed or rejected) never *)
(* names a live order again, whatever cancels and modifies of it are still  *)
(* in the queue.                                                            *)
NoResurrection ==
  [][\A id \in OrderId :
       told[id].state # "nothing" /\ ~Live(id) => orders'[id] = NoOrder]_vars

CancelPending(id) ==
  \E i \in DOMAIN Pending : Pending[i].kind = "Cancel" /\ Pending[i].id = id

(* A cancel that made it into the queue is answered, that the order is       *)
(* closed or that there was nothing to cancel, whatever was reported before: *)
(* what its order was told when the cancel was still pending does not count. *)
CancelAnswered ==
  \A id \in OrderId : \A n \in 0..(MaxAmends - 1) :
    CancelPending(id) /\ told[id].answers = n ~> told[id].answers > n

(* The worker finishes every command and the database worker every task     *)
(* once clients stop sending.                                               *)
Quiesces == <>[](Drained /\ queue = << >> /\ batch = << >>)

-----------------------------------------------------------------------------
Life == INSTANCE OrderLifecycle WITH Ids <- OrderId

(* The partition implements the order lifecycle: whatever the matching      *)
(* loop, skipped trades, late cancels and modifies, dropped commands and    *)
(* batches do, the reports a client gets about an order are a history that  *)
(* OrderLifecycle allows.                                                   *)
ImplementsLifecycle == Life!LifeSpec
=============================================================================
