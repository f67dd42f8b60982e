------------------------------ MODULE Exchange ------------------------------
(***************************************************************************)
(* The life of the exchange process around one partition: it may be killed  *)
(* at any moment, or stopped by the destructor of TradingCore with or       *)
(* without waiting for its queues first, and is started again on the same   *)
(* database.                                                                *)
(*                                                                         *)
(* The tables survive (dbOrders, dbTrades and the trade_id table); the      *)
(* database worker's queue, the command queue and everything in memory do   *)
(* not.  SQLite commits each task on its own and a killed process loses no  *)
(* committed task.                                                          *)
(***************************************************************************)
EXTENDS Partition

CONSTANT MaxRestarts  \* bound on the number of times the process starts again

ASSUME ExchangeAssumption == MaxRestarts \in Nat

VARIABLES
  phase,      \* how far the process is in its shutdown
  waited,     \* waitAllQueuesIdle has returned
  tradeIds,   \* the rows of the trade_id table
  restarts    \* how often the process has been started again (bound)

exchangeVars == <<vars, phase, waited, tradeIds, restarts>>

(* "draining": no command is accepted; "closing": the worker has stopped;   *)
(* "closed": the trade id is saved; "stopped": the database worker has      *)
(* stopped; "down": the process is gone.                                    *)
Phase == {"up", "draining", "closing", "closed", "stopped", "down"}

ExchangeInit ==
  /\ Init
  /\ phase = "up"
  /\ waited = FALSE
  /\ tradeIds = {}
  /\ restarts = 0

-----------------------------------------------------------------------------
(* The process is killed, at any point, or exits: everything in memory is   *)
(* gone.                                                                    *)
Exit ==
  /\ phase # "down"
  /\ restarts < MaxRestarts
  /\ phase' = "down"
  /\ waited' = FALSE
  /\ orders' = [i \in OrderId |-> NoOrder]
  /\ book' = EmptyBook
  /\ queue' = << >> /\ batch' = << >>
  /\ worker' = IdleState
  /\ tradeId' = 0 /\ orderId' = 0
  /\ dbQueue' = << >>
  /\ UNCHANGED <<dbOrders, dbTrades, told, amends, tradeIds, restarts>>

(* A client's command is logged and dropped from here on.                   *)
stopAcceptingCommands ==
  /\ phase = "up"
  /\ restarts < MaxRestarts
  /\ phase' = "draining"
  /\ UNCHANGED <<vars, waited, tradeIds, restarts>>

(* The two queues were seen empty; the batch is not looked at.              *)
waitAllQueuesIdle ==
  /\ phase = "draining"
  /\ queue = << >> /\ dbQueue = << >>
  /\ waited' = TRUE
  /\ UNCHANGED <<vars, phase, tradeIds, restarts>>

(* TradingCore::stop, called by the destructor: the worker finishes its     *)
(* batch and leaves the rest of the queue unread.                           *)
StopWorker ==
  /\ phase \in {"up", "draining"}
  /\ phase = "draining" => waited
  /\ restarts < MaxRestarts
  /\ worker.pc = "idle" /\ batch = << >>
  /\ phase' = "closing"
  /\ UNCHANGED <<vars, waited, tradeIds, restarts>>

(* SELECT id FROM trade_id reads the first row in key order.                *)
FirstTradeId == IF tradeIds = {} THEN 0 ELSE Min(tradeIds)

(* The task ~TradeIDGenerator queues behind all others; it inserts a row,   *)
(* it replaces none.                                                        *)
SaveTradeId ==
  /\ phase = "closing"
  /\ dbQueue = << >>
  /\ tradeIds' = IF tradeId > FirstTradeId THEN tradeIds \cup {tradeId} ELSE tradeIds
  /\ phase' = "closed"
  /\ UNCHANGED <<vars, waited, restarts>>

(* ~DatabaseWorker: the thread stops between two tasks, whatever is queued. *)
StopDatabase ==
  /\ phase \in {"closing", "closed"}
  /\ phase' = "stopped"
  /\ UNCHANGED <<vars, waited, tradeIds, restarts>>

-----------------------------------------------------------------------------
(* Mutant of Loaded: the query does not ask for the status.                 *)
MutLoaded == {id \in OrderId : dbOrders[id] # NoOrder}

(* The rows loadOrdersForInstrument selects.                                *)
Loaded == {id \in OrderId : dbOrders[id] # NoOrder
             /\ dbOrders[id].status \in {"New", "PartiallyFilled"}}

(* Mutant of MaxOrderId: only the rows that are loaded.                     *)
MutMaxOrderId == Max({0} \cup Loaded)

(* SELECT MAX(core_order_id) FROM orders, over all rows.                    *)
MaxOrderId == Max({0} \cup {id \in OrderId : dbOrders[id] # NoOrder})

(* insertOrder of every loaded order, in the order the hash map yields them: *)
(* each level holds the orders of its side and price, in any order.          *)
AtLevel(s, p) == {id \in Loaded : dbOrders[id].side = s /\ dbOrders[id].price = p}

Readings == UNION {SetToSeqs(AtLevel(s, p)) : s \in Side, p \in Prices}

Rebuilt ==
  {bk \in [Side -> [Prices -> Readings]] :
     \A s \in Side, p \in Prices : bk[s][p] \in SetToSeqs(AtLevel(s, p))}

(* The constructors of TradingCore, the generators and Partition, then      *)
(* start.                                                                   *)
Restart ==
  /\ phase = "down"
  /\ phase' = "up"
  /\ restarts' = restarts + 1
  /\ orders' = [id \in OrderId |-> IF id \in Loaded THEN dbOrders[id] ELSE NoOrder]
  /\ book' \in Rebuilt
  /\ orderId' = MaxOrderId
  /\ tradeId' = FirstTradeId
  /\ UNCHANGED <<queue, batch, worker, dbVars, told, amends, waited, tradeIds>>

-----------------------------------------------------------------------------
(* The threads run, each until it is stopped.                               *)
Run ==
  /\ \/ phase = "up" /\ Next
     \/ phase = "draining" /\ (WorkerStep \/ DbStep)
     \/ phase = "closing" /\ DbStep
  /\ UNCHANGED <<phase, waited, tradeIds, restarts>>

ExchangeNext ==
  \/ Run
  \/ stopAcceptingCommands \/ waitAllQueuesIdle
  \/ StopWorker \/ SaveTradeId \/ StopDatabase
  \/ Exit \/ Restart

ExchangeSpec == ExchangeInit /\ [][ExchangeNext]_exchangeVars

-----------------------------------------------------------------------------
(* Every variable holds a value of its type in every phase of the process.  *)
ExchangeTypeOK ==
  /\ TypeOK
  /\ phase \in Phase /\ waited \in BOOLEAN
  /\ tradeIds \subseteq Nat
  /\ restarts \in 0..MaxRestarts

(* A new order's id names no row of the orders table and no task on its way *)
(* there, whatever crashes have left behind: saveOrder's INSERT never       *)
(* clashes and addOrder never refuses the order.                            *)
RecoveredIdsFree ==
  \A i \in DOMAIN Pending :
    Pending[i].kind = "New" =>
      /\ ~Live(Pending[i].id)
      /\ dbOrders[Pending[i].id] = NoOrder
      /\ \A k \in DOMAIN dbQueue :
           dbQueue[k].op # "trade" => dbQueue[k].id # Pending[i].id

-----------------------------------------------------------------------------
(* The inductive strengthening: what any prefix of the task queue may leave *)
(* in the table, and what is left of memory, can be started from.           *)

(* An order that Partition::start would load has quantity left.             *)
OpenHasRest(o) == o.status \in {"New", "PartiallyFilled"} => o.rem > 0

(* No row, no task on its way and no order the manager holds is open with   *)
(* nothing left, except the order that is being matched.                    *)
RowsLoadable ==
  /\ \A id \in OrderId : dbOrders[id] # NoOrder => OpenHasRest(dbOrders[id])
  /\ \A k \in DOMAIN dbQueue :
       dbQueue[k].op \in {"save", "update"} => OpenHasRest(dbQueue[k].order)
  /\ \A id \in OrderId :
       Live(id) /\ ~(worker.pc = "match" /\ id = worker.id) => OpenHasRest(orders[id])

(* The table names no id above the counter, and no task will.               *)
RowsBelow ==
  /\ \A id \in OrderId : dbOrders[id] # NoOrder => id <= orderId
  /\ \A k \in DOMAIN dbQueue : dbQueue[k].op # "trade" => dbQueue[k].id <= orderId

(* Clients do not modify an order to quantity 0: a kill between the save of *)
(* such an order and its removal leaves a row that start puts in the book.  *)
NoZeroModify == "Modify" \notin AmendKinds \/ 0 \notin Quantities

(* No modify to quantity 0 is on its way.                                   *)
ModifiesRest ==
  \A i \in DOMAIN Pending : Pending[i].kind = "Modify" => Pending[i].qty > 0

(* Nothing of a process that is gone is left in memory, and it may start    *)
(* again.                                                                   *)
Gone ==
  /\ queue = << >> /\ batch = << >> /\ worker = IdleState /\ dbQueue = << >>
  /\ restarts < MaxRestarts

ExchangeInv ==
  /\ ExchangeTypeOK /\ CoreInv
  /\ RowsLoadable /\ ModifiesRest /\ RecoveredIdsFree
  /\ IF phase = "down" THEN Gone ELSE RowsBelow

-----------------------------------------------------------------------------
(* What the documentation claims and the code does not do.                  *)

(* However the process ends, the trades table explains every unit that the   *)
(* rows it leaves behind have lost.                                         *)
TradesSurvive ==
  phase = "down" =>
    \A id \in OrderId : dbOrders[id] # NoOrder =>
      dbOrders[id].orig - dbOrders[id].rem <= Traded(id, dbTrades)

(* A trade never gets an id the trades table has already.                   *)
TradeIdsNeverRepeat ==
  [][tradeId' = tradeId + 1 => tradeId' \notin {t.id : t \in dbTrades}]_exchangeVars

(* No market order rests in the book.                                       *)
MarketNeverRests ==
  \A id \in OrderId : Resting(book, id) => orders[id].type # "Market"

(* A shutdown that waited for the queues leaves no accepted command         *)
(* unprocessed and no task unexecuted.                                      *)
ShutdownDrains ==
  phase = "stopped" /\ waited => queue = << >> /\ batch = << >> /\ dbQueue = << >>
=============================================================================
