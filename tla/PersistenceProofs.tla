-------------------------- MODULE PersistenceProofs --------------------------
(***************************************************************************)
(* What reaches the database, proved with TLAPS for every value of the      *)
(* constants: no trade id is lost on its way to the trades table, and the   *)
(* rows of the orders table are those of the orders the manager holds.      *)
(***************************************************************************)
EXTENDS MatchingProofs, FiniteSetTheorems

-----------------------------------------------------------------------------
(* Trade ids on their way to the trades table.                              *)

LEMMA QueuedConcat ==
  ASSUME NEW a \in Seq(Task), NEW b \in Seq(Task)
  PROVE  QueuedTrades(a \o b) = QueuedTrades(a) \cup QueuedTrades(b)
<1>1. /\ Len(a) \in Nat /\ Len(b) \in Nat
      /\ DOMAIN a = 1..Len(a) /\ DOMAIN b = 1..Len(b)
      /\ DOMAIN (a \o b) = 1..(Len(a) + Len(b))
      /\ \A i \in 1..(Len(a) + Len(b)) :
           (a \o b)[i] = IF i <= Len(a) THEN a[i] ELSE b[i - Len(a)]
  BY ConcatProperties, LenProperties
<1> DEFINE c == a \o b
<1>2. \A i \in DOMAIN a : i \in DOMAIN c /\ c[i] = a[i]
  BY <1>1
<1>3. ASSUME NEW i \in DOMAIN b PROVE i + Len(a) \in DOMAIN c /\ c[i + Len(a)] = b[i]
  <2>1. i + Len(a) \in 1..(Len(a) + Len(b)) /\ ~(i + Len(a) <= Len(a))
        /\ (i + Len(a)) - Len(a) = i
    BY <1>1
  <2>2. QED
    BY <1>1, <2>1
<1>4. ASSUME NEW i \in DOMAIN c
      PROVE  \/ i \in DOMAIN a /\ c[i] = a[i]
             \/ i - Len(a) \in DOMAIN b /\ c[i] = b[i - Len(a)]
  BY <1>1
<1> HIDE DEF c
<1>5. ASSUME NEW x PROVE x \in QueuedTrades(c) <=> x \in QueuedTrades(a) \cup QueuedTrades(b)
  BY <1>2, <1>3, <1>4 DEF QueuedTrades
<1>6. QED
  BY <1>5 DEF c

LEMMA QueuedTail ==
  ASSUME NEW q \in Seq(Task), q # << >>
  PROVE  /\ Head(q).op = "trade" =>
              QueuedTrades(q) = {Head(q).trade} \cup QueuedTrades(Tail(q))
         /\ Head(q).op # "trade" => QueuedTrades(q) = QueuedTrades(Tail(q))
<1>1. /\ Len(q) \in Nat /\ Len(q) > 0 /\ DOMAIN q = 1..Len(q) /\ Head(q) = q[1]
      /\ DOMAIN Tail(q) = 1..(Len(q) - 1)
      /\ \A i \in 1..(Len(q) - 1) : Tail(q)[i] = q[i + 1]
  BY HeadTailProperties, LenProperties, EmptySeq
<1> DEFINE r == Tail(q)
<1>2. 1 \in DOMAIN q /\ \A i \in DOMAIN r : i + 1 \in DOMAIN q /\ q[i + 1] = r[i]
  BY <1>1
<1>3. ASSUME NEW i \in DOMAIN q, i # 1 PROVE i - 1 \in DOMAIN r /\ r[i - 1] = q[i]
  <2>1. i - 1 \in 1..(Len(q) - 1) /\ (i - 1) + 1 = i
    BY <1>1, <1>3
  <2>2. QED
    BY <1>1, <2>1
<1> HIDE DEF r
<1>4. ASSUME NEW x
      PROVE  x \in QueuedTrades(q) <=>
               (q[1].op = "trade" /\ x = q[1].trade) \/ x \in QueuedTrades(r)
  BY <1>2, <1>3 DEF QueuedTrades
<1>5. QED
  BY <1>1, <1>4 DEF r

(* Every step but a fill leaves the trades made where they are, or moves one *)
(* from the worker's list to the task queue or from there to the table.      *)
LEMMA TradesMove ==
  ASSUME IndInv, IdleEmpty, NoModifies, TradeIdsKept, [Next]_vars, ~Fill
  PROVE  AllTrades' = AllTrades
<1>0. TypeOK /\ WorkerInv
  BY DEF IndInv
<1> DEFINE Table == dbTrades
           Listed == {worker.trades[i] : i \in DOMAIN worker.trades}
<1>2. SUFFICES Table' \cup QueuedTrades(dbQueue') \cup Listed'
                 = Table \cup QueuedTrades(dbQueue) \cup Listed
  BY DEF AllTrades, QueuedTrades
<1>3. dbQueue \in Seq(Task)
  BY <1>0 DEF TypeOK
<1>4. CASE UNCHANGED <<dbTrades, dbQueue, worker>>
  BY <1>4
<1>5. ASSUME NEW tasks \in Seq(Task), QueuedTrades(tasks) = {},
             dbQueue' = dbQueue \o tasks
      PROVE  QueuedTrades(dbQueue') = QueuedTrades(dbQueue)
  <2>1. QueuedTrades(dbQueue \o tasks) = QueuedTrades(dbQueue) \cup QueuedTrades(tasks)
    BY <1>3, QueuedConcat
  <2>2. QED
    BY <1>5, <2>1
<1>6. ASSUME NEW id \in OrderId, NEW o \in Order
      PROVE  /\ <<removeOrder(id)>> \in Seq(Task) /\ QueuedTrades(<<removeOrder(id)>>) = {}
             /\ <<saveOrder(id, o)>> \in Seq(Task) /\ QueuedTrades(<<saveOrder(id, o)>>) = {}
  <2>1. /\ removeOrder(id) \in Task /\ removeOrder(id).op = "remove"
        /\ saveOrder(id, o) \in Task /\ saveOrder(id, o).op = "save"
    BY TaskType DEF removeOrder, saveOrder
  <2>2. QED
    BY <2>1 DEF QueuedTrades
<1>7. CASE AcceptNew
  <2>1. /\ batch # << >> /\ Cmd.kind = "New" /\ worker.pc = "idle"
        /\ dbQueue' = dbQueue \o <<saveOrder(Cmd.id, Cmd.order)>>
        /\ worker' = Matching("New", Cmd.id)
        /\ UNCHANGED <<dbTrades>>
    BY <1>7 DEF AcceptNew, Take, Persist
  <2>2. Cmd.id \in OrderId /\ Cmd.order \in Order
    BY <1>0, <2>1, CmdType
  <2>3. QueuedTrades(dbQueue') = QueuedTrades(dbQueue)
    BY <1>5, <1>6, <2>1, <2>2
  <2>4. Listed' = {}
    BY <2>1 DEF Matching
  <2>5. Listed = {}
    BY <2>1 DEF IdleEmpty
  <2>6. QED
    BY <2>1, <2>3, <2>4, <2>5
<1>8. CASE StartModify
  <2>1. /\ batch # << >> /\ batch' = Tail(batch) /\ queue' = queue
        /\ Cmd.kind = "Modify"
    BY <1>8 DEF StartModify, Take
  <2>2. 1 \in DOMAIN Pending /\ Pending[1] = Cmd
    BY <1>0, <2>1, PendingTake
  <2>3. QED
    BY <2>1, <2>2 DEF NoModifies
<1>9. CASE CancelResting
  <2>1. /\ batch # << >>
        /\ dbQueue' = dbQueue \o <<removeOrder(Cmd.id)>>
        /\ UNCHANGED <<worker, dbTrades>>
    BY <1>9 DEF CancelResting, Take, Persist
  <2>2. Cmd.id \in OrderId /\ orders[Cmd.id] \in Order
    BY <1>0, <1>9, <2>1, CmdType DEF CancelResting, Live, TypeOK
  <2>3. QueuedTrades(dbQueue') = QueuedTrades(dbQueue)
    BY <1>5, <1>6, <2>1, <2>2
  <2>4. QED
    BY <2>1, <2>3
<1>11. CASE EndMatch
  <2>1. worker'.trades = worker.trades /\ UNCHANGED <<dbTrades, dbQueue>>
    BY <1>0, <1>11 DEF EndMatch, TypeOK, Worker, dbVars
  <2>2. QED
    BY <2>1
<1>12. ASSUME worker.trades # << >>, worker' = [worker EXCEPT !.trades = Tail(@)],
              NEW tasks \in Seq(Task),
              QueuedTrades(tasks) = {Head(worker.trades)},
              dbQueue' = dbQueue \o tasks, UNCHANGED <<dbTrades>>
       PROVE  Table' \cup QueuedTrades(dbQueue') \cup Listed'
                = Table \cup QueuedTrades(dbQueue) \cup Listed
  <2>1. /\ 1 \in DOMAIN worker.trades /\ Head(worker.trades) = worker.trades[1]
        /\ \A i \in DOMAIN worker'.trades :
             /\ i + 1 \in DOMAIN worker.trades
             /\ worker'.trades[i] = worker.trades[i + 1]
        /\ \A i \in DOMAIN worker.trades :
             i = 1 \/ (i - 1 \in DOMAIN worker'.trades
                       /\ worker'.trades[i - 1] = worker.trades[i])
    BY <1>0, <1>12, TradeTaken
  <2>2. Listed = {Head(worker.trades)} \cup Listed'
    <3>1. ASSUME NEW x \in Listed PROVE x \in {Head(worker.trades)} \cup Listed'
      BY <2>1
    <3>2. ASSUME NEW x \in {Head(worker.trades)} \cup Listed' PROVE x \in Listed
      BY <2>1
    <3>3. QED
      BY <3>1, <3>2
  <2>3. QueuedTrades(dbQueue') = QueuedTrades(dbQueue) \cup {Head(worker.trades)}
    BY <1>3, <1>12, QueuedConcat
  <2>4. Table' = Table
    BY <1>12
  <2> HIDE DEF Table, Listed
  <2>5. QED
    BY <1>12, <2>2, <2>3, <2>4
<1>13. ASSUME NEW t \in Trade
       PROVE  PostTrade(t) \in Seq(Task) /\ QueuedTrades(PostTrade(t)) = {t}
  <2>1. PostTrade(t) = <<addTrade(t)>>
    BY DEF PostTrade, NoModifies
  <2>2. addTrade(t) \in Task /\ addTrade(t).op = "trade" /\ addTrade(t).trade = t
    BY DEF addTrade, Task
  <2>3. QED
    BY <2>1, <2>2 DEF QueuedTrades
<1>14. CASE SettleTrade
  <2> DEFINE t == Head(worker.trades)
             ups == <<updateOrder(t.buy, orders[t.buy]),
                      updateOrder(t.sell, orders[t.sell])>>
  <2>1. /\ worker.trades # << >> /\ worker' = [worker EXCEPT !.trades = Tail(@)]
        /\ Live(t.buy) /\ Live(t.sell)
        /\ dbQueue' = dbQueue \o (PostTrade(t) \o ups
                                   \o RemoveIfFilled(t.buy) \o RemoveIfFilled(t.sell))
        /\ UNCHANGED <<dbTrades>>
    BY <1>14 DEF SettleTrade, Persist
  <2>2. t \in Trade
    BY <1>0, <2>1, TradeTaken
  <2>3. /\ t.buy \in OrderId /\ t.sell \in OrderId
        /\ orders[t.buy] \in Order /\ orders[t.sell] \in Order
    BY <1>0, <2>1, <2>2 DEF Trade, TypeOK, Live
  <2>4. ups \in Seq(Task) /\ QueuedTrades(ups) = {}
    <3>1. /\ updateOrder(t.buy, orders[t.buy]) \in Task
          /\ updateOrder(t.sell, orders[t.sell]) \in Task
          /\ updateOrder(t.buy, orders[t.buy]).op = "update"
          /\ updateOrder(t.sell, orders[t.sell]).op = "update"
      BY <2>3, TaskType DEF updateOrder
    <3>2. ups \in Seq(Task)
      BY <3>1
    <3>3. \A i \in DOMAIN ups : ups[i].op # "trade"
      BY <3>1
    <3>4. QED
      BY <3>2, <3>3 DEF QueuedTrades
  <2>5. ASSUME NEW id \in {t.buy, t.sell}
        PROVE  RemoveIfFilled(id) \in Seq(Task) /\ QueuedTrades(RemoveIfFilled(id)) = {}
    <3>1. CASE orders[id].rem = 0
      <4>1. RemoveIfFilled(id) = <<removeOrder(id)>>
        BY <3>1 DEF RemoveIfFilled
      <4>2. id \in OrderId /\ orders[id] \in Order
        BY <2>3
      <4>3. QED
        BY <1>6, <4>1, <4>2
    <3>2. CASE orders[id].rem # 0
      <4>1. RemoveIfFilled(id) = << >>
        BY <3>2 DEF RemoveIfFilled
      <4>2. << >> \in Seq(Task) /\ QueuedTrades(<< >>) = {}
        BY EmptySeq DEF QueuedTrades
      <4>3. QED
        BY <4>1, <4>2
    <3>3. QED
      BY <3>1, <3>2
  <2>6. PostTrade(t) \in Seq(Task) /\ QueuedTrades(PostTrade(t)) = {t}
    BY <1>13, <2>2
  <2> HIDE DEF ups, t
  <2>7. PostTrade(t) \o ups \in Seq(Task) /\ QueuedTrades(PostTrade(t) \o ups) = {t}
    BY <2>4, <2>6, QueuedConcat, ConcatProperties
  <2> DEFINE a == PostTrade(t) \o ups
             b == a \o RemoveIfFilled(t.buy)
             c == b \o RemoveIfFilled(t.sell)
  <2>8. b \in Seq(Task) /\ QueuedTrades(b) = {t}
    BY <2>5, <2>7, QueuedConcat, ConcatProperties
  <2>9. c \in Seq(Task) /\ QueuedTrades(c) = {t}
    <3> HIDE DEF b
    <3>1. QED
      BY <2>5, <2>8, QueuedConcat, ConcatProperties
  <2>10. dbQueue' = dbQueue \o c
    BY <2>1
  <2> HIDE DEF c
  <2>11. QED
    BY <1>12, <2>1, <2>9, <2>10 DEF t
<1>15. CASE SkipTrade
  <2>1. /\ worker.trades # << >> /\ worker' = [worker EXCEPT !.trades = Tail(@)]
        /\ dbQueue' = dbQueue \o PostTrade(Head(worker.trades))
        /\ UNCHANGED <<dbTrades>>
    BY <1>15 DEF SkipTrade, Persist
  <2>2. Head(worker.trades) \in Trade
    BY <1>0, <2>1, TradeTaken
  <2>3. QED
    BY <1>12, <1>13, <2>1, <2>2
<1>16. CASE RestIncoming \/ IncomingDone
  <2>1. /\ worker.trades = << >> /\ worker' = IdleState
        /\ UNCHANGED <<dbTrades, dbQueue>>
    BY <1>16 DEF RestIncoming, IncomingDone, Settled, dbVars
  <2>2. Listed' = {} /\ Listed = {}
    BY <2>1 DEF IdleState
  <2>3. QED
    BY <2>1, <2>2
<1>17. CASE RemoveIncoming
  <2>1. /\ worker.trades = << >> /\ worker' = IdleState
        /\ dbQueue' = dbQueue \o <<removeOrder(worker.id)>>
        /\ UNCHANGED <<dbTrades>>
        /\ worker.pc = "settle" /\ Live(worker.id)
    BY <1>17 DEF RemoveIncoming, Settled, MustRemove, Persist
  <2>2. worker.id \in OrderId /\ orders[worker.id] \in Order
    BY <1>0, <2>1 DEF WorkerInv, Live, TypeOK
  <2>3. QueuedTrades(dbQueue') = QueuedTrades(dbQueue)
    BY <1>5, <1>6, <2>1, <2>2
  <2>4. Listed' = {} /\ Listed = {}
    BY <2>1 DEF IdleState
  <2>5. QED
    BY <2>1, <2>3, <2>4
<1>18. CASE RunOrderTask
  <2>1. /\ dbQueue # << >> /\ Head(dbQueue).op # "trade" /\ dbQueue' = Tail(dbQueue)
        /\ UNCHANGED <<worker, dbTrades>>
    BY <1>18 DEF RunOrderTask, workerVars
  <2>2. QueuedTrades(dbQueue) = QueuedTrades(dbQueue')
    BY <1>3, <2>1, QueuedTail
  <2>3. QED
    BY <2>1, <2>2
<1>19. CASE RunTradeTask
  <2> DEFINE t == Head(dbQueue).trade
  <2>1. /\ dbQueue # << >> /\ Head(dbQueue).op = "trade" /\ dbQueue' = Tail(dbQueue)
        /\ dbTrades' = IF \E u \in dbTrades : u.id = t.id THEN dbTrades
                       ELSE dbTrades \cup {t}
        /\ UNCHANGED <<worker>>
    BY <1>19 DEF RunTradeTask, workerVars
  <2>2. QueuedTrades(dbQueue) = {t} \cup QueuedTrades(dbQueue')
    BY <1>3, <2>1, QueuedTail
  <2>3. Table' = Table \cup {t}
    <3>1. t \in QueuedTrades(dbQueue)
      BY <2>2
    <3>2. \A u \in dbTrades : u.id = t.id => u = t
      BY <3>1 DEF TradeIdsKept, AllTrades, QueuedTrades
    <3>3. QED
      BY <2>1, <3>2
  <2> HIDE DEF t
  <2>4. Listed' = Listed
    BY <2>1
  <2> HIDE DEF Table, Listed
  <2>5. QED
    BY <2>1, <2>2, <2>3, <2>4
<1> HIDE DEF Table, Listed
<1>20. QED
  BY <1>4, <1>7, <1>8, <1>9, <1>11, <1>14, <1>15, <1>16, <1>17, <1>18, <1>19
  DEF Next, WorkerStep, DbStep, SubmitNew, SubmitAmend, FetchBatch, RejectNew,
      RejectUnknown, RejectCancel, Take, workerVars, dbVars, vars

LEMMA TradesMade ==
  ASSUME TypeOK, NEW t \in Trade,
         worker' = [worker EXCEPT !.trades = Append(@, t)],
         UNCHANGED <<dbQueue, dbTrades>>
  PROVE  AllTrades' = AllTrades \cup {t}
<1> DEFINE Listed == {worker.trades[i] : i \in DOMAIN worker.trades}
<1>1. /\ Len(worker.trades) \in Nat
      /\ DOMAIN worker.trades = 1..Len(worker.trades)
      /\ DOMAIN worker'.trades = 1..(Len(worker.trades) + 1)
      /\ \A i \in DOMAIN worker.trades : worker'.trades[i] = worker.trades[i]
      /\ worker'.trades[Len(worker.trades) + 1] = t
  BY TradeAppended
<1>2. DOMAIN worker'.trades = DOMAIN worker.trades \cup {Len(worker.trades) + 1}
  BY <1>1
<1>3. Listed' = Listed \cup {t}
  BY <1>1, <1>2
<1>4. QueuedTrades(dbQueue)' = QueuedTrades(dbQueue)
  BY DEF QueuedTrades
<1> HIDE DEF Listed
<1>5. QED
  BY <1>3, <1>4 DEF AllTrades, Listed

LEMMA TradeIdsStep ==
  ASSUME IndInv, IdleEmpty, NoModifies, TradeIdsKept, [Next]_vars
  PROVE  TradeIdsKept'
<1>1. CASE Fill
  <2>1. PICK t \in Trade :
          /\ t.id = tradeId + 1 /\ tradeId' = tradeId + 1
          /\ worker' = [worker EXCEPT !.trades = Append(@, t)]
          /\ UNCHANGED <<dbQueue, dbTrades>>
    BY <1>1, FillEffect
  <2>2. TypeOK /\ tradeId \in Nat
    BY DEF IndInv, TypeOK
  <2>3. AllTrades' = AllTrades \cup {t}
    BY <2>1, <2>2, TradesMade
  <2>4. 1..(tradeId + 1) = 1..tradeId \cup {tradeId + 1}
    BY <2>2
  <2>5. \A u \in AllTrades : u.id # tradeId + 1
    <3>1. \A u \in AllTrades : u.id \in 1..tradeId
      BY DEF TradeIdsKept
    <3>2. QED
      BY <2>2, <3>1
  <2>6. QED
    BY <2>1, <2>3, <2>4, <2>5 DEF TradeIdsKept
<1>2. CASE ~Fill
  <2>1. AllTrades' = AllTrades
    BY <1>2, TradesMove
  <2>2. tradeId' = tradeId
    BY <1>2 DEF Next, WorkerStep, DbStep, SubmitNew, SubmitAmend, FetchBatch, RejectNew,
       AcceptNew, RejectUnknown, CancelResting, RejectCancel, StartModify, EndMatch,
       SettleTrade, SkipTrade, RestIncoming, RemoveIncoming, IncomingDone,
       RunOrderTask, RunTradeTask, Take, workerVars, dbVars, vars
  <2>3. QED
    BY <2>1, <2>2 DEF TradeIdsKept
<1>3. QED
  BY <1>1, <1>2

(* As long as nobody modifies an order (processModifyOrder does not call    *)
(* postTradeUpdate), every trade id handed out is in the trades table once  *)
(* the database worker has caught up, skipped trades included.              *)
THEOREM TradesPersisted ==
  ASSUME "Modify" \notin AmendKinds
  PROVE  Spec => []EveryTradePersisted
<1> DEFINE Inv == NoModifies /\ IdleEmpty /\ TradeIdsKept
<1>1. Init => Inv
  <2> SUFFICES ASSUME Init PROVE Inv
    OBVIOUS
  <2>1. DOMAIN Pending = {}
    <3>1. Len(Pending) = 0
      BY EmptySeq, ConcatProperties DEF Init, Pending
    <3>2. QED
      BY <3>1, InitInv, PendingType DEF IndInv
  <2>2. QED
    BY <2>1 DEF Init, IdleState, NoModifies, IdleEmpty, TradeIdsKept, AllTrades,
       QueuedTrades
<1>2. IndInv /\ Inv /\ [Next]_vars => Inv'
  BY NoModifiesStep, IdleEmptyStep, TradeIdsStep
<1>3. Inv => EveryTradePersisted
  BY DEF EveryTradePersisted, Drained, Idle, IdleEmpty, TradeIdsKept, AllTrades,
     QueuedTrades
<1> HIDE DEF Inv
<1>4. QED
  BY <1>1, <1>2, <1>3, Safety, PTL DEF Spec

-----------------------------------------------------------------------------
(* The ledger: the trades, wherever they are, explain what the open orders   *)
(* have lost.                                                                *)

(* The sum over trades as a fold.                                            *)
AddQty(d, t, sum) == t.qty + sum

Pick(s) == CHOOSE x \in s : TRUE

QtySum == INSTANCE FoldTheory WITH Step <- AddQty, Choice <- Pick

Of(id, trades) == {t \in trades : id \in {t.buy, t.sell}}

LEMMA TradedSum ==
  ASSUME NEW S, NEW id
  PROVE  Traded(id, S) = QtySum!FoldOf(0, 0, Of(id, S))
BY DEF Traded, MapThenSumSet, MapThenFoldSet, Of, QtySum!FoldOf, QtySum!IsFold, AddQty, Pick

LEMMA Picks == ASSUME NEW S PROVE QtySum!Chooses(S)
BY DEF QtySum!Chooses, Pick

LEMMA Finite == ASSUME NEW S PROVE QtySum!IsFiniteSet(S) <=> IsFiniteSet(S)
BY DEF QtySum!IsFiniteSet, IsFiniteSet

(* A new trade adds its quantity to what its two parties have traded.        *)
LEMMA TradedMore ==
  ASSUME NEW S \in SUBSET Trade, IsFiniteSet(S), NEW t \in Trade, t \notin S, NEW id
  PROVE  /\ IsFiniteSet(S \cup {t})
         /\ Traded(id, S) \in Int
         /\ Traded(id, S \cup {t}) =
              IF id \in {t.buy, t.sell} THEN t.qty + Traded(id, S) ELSE Traded(id, S)
<1> DEFINE A == Of(id, S)
           B == Of(id, S \cup {t})
           T == A \cup {t}
<1>1. IsFiniteSet(S \cup {t})
  BY FS_AddElement
<1>2. A \in SUBSET S /\ IsFiniteSet(A) /\ t \notin A
  BY FS_Subset DEF Of
<1>3. Traded(id, S) = QtySum!FoldOf(0, 0, A) /\ Traded(id, S \cup {t}) = QtySum!FoldOf(0, 0, B)
  BY TradedSum
<1>4. B = IF id \in {t.buy, t.sell} THEN T ELSE A
  BY DEF Of
<1>5. IsFiniteSet(T) /\ t \in T /\ T \ {t} = A /\ T \subseteq Trade
  BY <1>2, FS_AddElement
<1> HIDE DEF A, B, T
<1>6. QtySum!StaysIn(A, 0, Int) /\ QtySum!StaysIn(T, 0, Int) /\ QtySum!Commutes(T, 0, Int)
  BY <1>2, <1>5 DEF QtySum!StaysIn, QtySum!Commutes, AddQty, Trade
<1>7. QtySum!FoldOf(0, 0, A) \in Int
  BY <1>2, <1>6, Picks, Finite, QtySum!FoldStays
<1>8. QtySum!FoldOf(0, 0, T) = AddQty(0, t, QtySum!FoldOf(0, 0, T \ {t}))
  BY <1>5, <1>6, Picks, Finite, QtySum!FoldAnyLast
<1>9. QED
  BY <1>1, <1>3, <1>4, <1>5, <1>7, <1>8 DEF AddQty

LEMMA TradesAre ==
  ASSUME TypeOK
  PROVE  AllTrades \subseteq Trade
<1>1. \A i \in DOMAIN worker.trades : worker.trades[i] \in Trade
  BY DEF TypeOK, Worker
<1>2. \A i \in DOMAIN dbQueue : dbQueue[i].op = "trade" => dbQueue[i].trade \in Trade
  <2>1. \A i \in DOMAIN dbQueue : dbQueue[i] \in Task
    BY DEF TypeOK
  <2>2. \A x \in Task : x.op = "trade" => x.trade \in Trade
    BY DEF Task
  <2>3. QED
    BY <2>1, <2>2
<1>3. dbTrades \subseteq Trade
  BY DEF TypeOK
<1>4. QED
  BY <1>1, <1>2, <1>3 DEF AllTrades, QueuedTrades

(* One trade for each of finitely many ids.                                  *)
LEMMA TradesFinite ==
  ASSUME TypeOK, TradeIdsKept
  PROVE  IsFiniteSet(AllTrades)
<1> DEFINE f == [t \in AllTrades |-> t.id]
<1>1. tradeId \in Nat
  BY DEF TypeOK
<1>2. IsFiniteSet(1..tradeId)
  BY <1>1, FS_Interval
<1>3. f \in Injection(AllTrades, 1..tradeId)
  <2>1. f \in [AllTrades -> 1..tradeId]
    BY DEF TradeIdsKept
  <2>2. IsInjective(f)
    BY DEF TradeIdsKept, IsInjective
  <2>3. QED
    BY <2>1, <2>2 DEF Injection
<1> HIDE DEF f
<1>4. QED
  BY <1>2, <1>3, FS_Injection

(* A new order on its way was on its way before, or has the next id.         *)
LEMMA NewOnItsWay ==
  ASSUME TypeOK, [Next]_vars, ~Fill
  PROVE  /\ orderId' >= orderId
         /\ \A i \in DOMAIN Pending' : Pending'[i].kind = "New" =>
              \/ \E j \in DOMAIN Pending : Pending[j] = Pending'[i]
              \/ Pending'[i].id = orderId + 1
<1>0. /\ orderId \in Nat /\ Len(Pending) \in Nat
      /\ DOMAIN Pending = 1..Len(Pending)
  BY PendingType, OrdersAssumption DEF TypeOK
<1>1. CASE UNCHANGED <<queue, batch, orderId>>
  BY <1>0, <1>1 DEF Pending
<1>2. CASE SubmitNew \/ SubmitAmend
  <2>1. PICK c \in Command : Enqueue(c) /\ (c.kind = "New" => c.id = orderId + 1)
    <3>1. CASE SubmitNew
      <4>1. PICK o \in ClientOrders :
              Enqueue([kind |-> "New", id |-> orderId + 1, order |-> o])
        BY <3>1 DEF SubmitNew
      <4>2. orderId + 1 \in OrderId
        BY <3>1, OrdersAssumption DEF SubmitNew, TypeOK, OrderId
      <4>3. [kind |-> "New", id |-> orderId + 1, order |-> o] \in Command
        BY <4>2, PartitionAssumption DEF Command
      <4>4. QED
        BY <4>1, <4>3
    <3>2. CASE SubmitAmend
      <4>1. PICK c \in [kind : AmendKinds \cap {"Cancel"}, id : 1..orderId]
                        \cup [kind : AmendKinds \cap {"Modify"}, id : 1..orderId,
                              price : Prices, qty : Quantities] : Enqueue(c)
        BY <3>2 DEF SubmitAmend
      <4>2. 1..orderId \subseteq OrderId
        BY OrdersAssumption DEF TypeOK, OrderId
      <4>3. c \in Command /\ c.kind # "New"
        BY <4>1, <4>2 DEF Command
      <4>4. QED
        BY <4>1, <4>3
    <3>3. QED
      BY <1>2, <3>1, <3>2
  <2>2. batch' = batch /\ orderId' >= orderId
    BY <1>0, <1>2 DEF SubmitNew, SubmitAmend, workerVars
  <2>3. \/ Pending' = Pending
        \/ /\ DOMAIN Pending' = 1..(Len(Pending) + 1)
           /\ \A i \in 1..Len(Pending) : Pending'[i] = Pending[i]
           /\ Pending'[Len(Pending) + 1] = c
    BY <2>1, <2>2, PendingEnqueue
  <2>4. QED
    BY <1>0, <2>1, <2>2, <2>3
<1>3. CASE FetchBatch
  BY <1>0, <1>3, PendingFetch DEF FetchBatch
<1>4. CASE \/ RejectNew \/ AcceptNew \/ RejectUnknown \/ CancelResting
           \/ RejectCancel \/ StartModify
  <2>1. /\ batch # << >> /\ batch' = Tail(batch) /\ queue' = queue
        /\ orderId' = orderId
    BY <1>4 DEF RejectNew, AcceptNew, RejectUnknown, CancelResting, RejectCancel,
                StartModify, Take
  <2>2. /\ DOMAIN Pending' = 1..(Len(Pending) - 1)
        /\ \A i \in 1..(Len(Pending) - 1) : Pending'[i] = Pending[i + 1]
    BY <2>1, PendingTake
  <2>3. \A i \in 1..(Len(Pending) - 1) : i + 1 \in DOMAIN Pending
    BY <1>0
  <2>4. \A i \in DOMAIN Pending' : i + 1 \in DOMAIN Pending
                                   /\ Pending[i + 1] = Pending'[i]
    BY <2>2, <2>3
  <2>5. orderId' >= orderId
    BY <1>0, <2>1
  <2>6. QED
    BY <2>4, <2>5
<1>5. QED
  BY <1>1, <1>2, <1>3, <1>4
  DEF Next, WorkerStep, DbStep, EndMatch, SettleTrade, SkipTrade, RestIncoming,
      RemoveIncoming, IncomingDone, RunOrderTask, RunTradeTask, workerVars, vars

LEMMA PartiesStep ==
  ASSUME IndInv, IdleEmpty, NoModifies, TradeIdsKept, PartiesKnown, [Next]_vars
  PROVE  PartiesKnown'
<1>0. TypeOK /\ orderId \in Nat
  BY OrdersAssumption DEF IndInv, TypeOK
<1>1. CASE Fill
  <2>1. PICK p \in Prices, r \in OrderId, q \in Nat, t \in Trade :
          /\ worker.pc = "match" /\ worker.id \in OrderId
          /\ orders[r] \in Order
          /\ {t.buy, t.sell} \subseteq {worker.id, r}
          /\ worker' = [worker EXCEPT !.trades = Append(@, t)]
          /\ UNCHANGED <<queue, batch, orderId, dbQueue, dbTrades>>
    BY <1>1, FillEffect
  <2>2. AllTrades' = AllTrades \cup {t}
    BY <1>0, <2>1, TradesMade
  <2>3. Live(worker.id) /\ Live(r)
    BY <2>1, OrdersAssumption DEF IndInv, WorkerInv, Live
  <2>4. ASSUME NEW id \in {worker.id, r}
        PROVE  /\ id <= orderId
               /\ \A i \in DOMAIN Pending :
                    Pending[i].kind = "New" => Pending[i].id # id
    BY <2>1, <2>3 DEF IndInv, OrdersInv, NewIdsFresh
  <2>5. Pending' = Pending /\ orderId' = orderId
    BY <2>1 DEF Pending
  <2>6. QED
    BY <2>1, <2>2, <2>4, <2>5 DEF PartiesKnown
<1>2. CASE ~Fill
  <2>1. AllTrades' = AllTrades
    BY <1>2, TradesMove
  <2>2. /\ orderId' >= orderId
        /\ \A i \in DOMAIN Pending' : Pending'[i].kind = "New" =>
             \/ \E j \in DOMAIN Pending : Pending[j] = Pending'[i]
             \/ Pending'[i].id = orderId + 1
    BY <1>0, <1>2, NewOnItsWay
  <2>3. orderId' \in Nat
    BY IndStep, OrdersAssumption DEF IndInv, TypeOK
  <2>4. AllTrades \subseteq Trade
    BY <1>0, TradesAre
  <2>5. \A t \in AllTrades : t.buy \in Nat /\ t.sell \in Nat
    BY <2>4 DEF Trade, OrderId
  <2>6. QED
    BY <1>0, <2>1, <2>2, <2>3, <2>5 DEF PartiesKnown
<1>3. QED
  BY <1>1, <1>2

(* What the orders lose in a step they lose to the trades it makes.          *)
LEMMA SumsStep ==
  ASSUME IndInv, IdleEmpty, NoModifies, TradeIdsKept, Ledger, [Next]_vars
  PROVE  SumsAgree'
<1>0. TypeOK /\ IsFiniteSet(AllTrades) /\ AllTrades \in SUBSET Trade
  BY TradesAre, TradesFinite DEF IndInv
<1>1. CASE Fill
  <2>1. PICK p \in Prices, r \in OrderId, q \in Nat, t \in Trade :
          /\ worker.pc = "match" /\ worker.id \in OrderId /\ r # worker.id
          /\ Incoming \in Order /\ orders[r] \in Order
          /\ q <= Incoming.rem /\ q <= orders[r].rem
          /\ orders'[worker.id] = FillIncoming(Incoming, q)
          /\ orders'[r] = FillResting(orders[r], q)
          /\ \A id \in OrderId \ {worker.id, r} : orders'[id] = orders[id]
          /\ t.qty = q /\ t.id = tradeId + 1
          /\ {t.buy, t.sell} = {worker.id, r}
          /\ worker' = [worker EXCEPT !.trades = Append(@, t)]
          /\ UNCHANGED <<dbQueue, dbTrades>>
    BY <1>1, FillEffect
  <2>2. AllTrades' = AllTrades \cup {t}
    BY <1>0, <2>1, TradesMade
  <2>3. t \notin AllTrades
    <3>1. \A u \in AllTrades : u.id \in 1..tradeId
      BY DEF TradeIdsKept
    <3>2. tradeId \in Nat
      BY <1>0 DEF TypeOK
    <3>3. QED
      BY <2>1, <3>1, <3>2
  <2>4. ASSUME NEW id \in OrderId, Live(id)'
        PROVE  orders'[id].orig - orders'[id].rem = Traded(id, AllTrades')
    <3>1. /\ Traded(id, AllTrades) \in Int
          /\ Traded(id, AllTrades \cup {t}) =
               IF id \in {worker.id, r} THEN q + Traded(id, AllTrades)
                                       ELSE Traded(id, AllTrades)
      BY <1>0, <2>1, <2>3, TradedMore
    <3>2. Live(id) /\ orders[id] \in Order
      BY <1>0, <2>1, <2>4, OrdersAssumption DEF Live, Incoming, TypeOK
    <3>3. orders[id].orig - orders[id].rem = Traded(id, AllTrades)
      BY <3>2 DEF Ledger, SumsAgree, Managed
    <3>4. /\ orders[id].orig \in Nat /\ orders[id].rem \in Nat
      BY <3>2, OrdersAssumption DEF Order
    <3>5. CASE id \in {worker.id, r}
      <4>1. /\ orders'[id].orig = orders[id].orig
            /\ orders'[id].rem = orders[id].rem - q
        <5>1. CASE id = worker.id
          BY <2>1, <3>2, <5>1 DEF FillIncoming, Incoming, Order
        <5>2. CASE id = r
          BY <2>1, <3>2, <5>2 DEF FillResting, Order
        <5>3. QED
          BY <3>5, <5>1, <5>2
      <4>2. QED
        <5> DEFINE a == orders[id].orig
                   b == orders[id].rem
                   s == Traded(id, AllTrades)
        <5>1. a \in Nat /\ b \in Nat /\ q \in Nat /\ s \in Int /\ a - b = s
          BY <3>1, <3>3, <3>4
        <5>2. Traded(id, AllTrades \cup {t}) = q + s
          BY <3>1, <3>5
        <5> HIDE DEF a, b, s
        <5>3. a - (b - q) = q + s
          BY <5>1
        <5>4. QED
          BY <2>2, <4>1, <5>2, <5>3 DEF a, b
    <3>6. CASE id \notin {worker.id, r}
      BY <2>1, <2>2, <3>1, <3>3, <3>6
    <3>7. QED
      BY <3>5, <3>6
  <2>5. QED
    BY <2>4 DEF SumsAgree, Managed
<1>2. ASSUME ~Fill PROVE AllTrades' = AllTrades
  BY <1>2, TradesMove
<1>3. CASE AcceptNew
  <2>1. /\ batch # << >> /\ Cmd.kind = "New"
        /\ batch' = Tail(batch) /\ queue' = queue
        /\ orders' = [orders EXCEPT ![Cmd.id] = Cmd.order]
    BY <1>3 DEF AcceptNew, Take
  <2>2. /\ Cmd.id \in OrderId /\ 1 \in DOMAIN Pending /\ Pending[1] = Cmd
    BY <1>0, <2>1, CmdType, PendingTake
  <2>3. Cmd.order \in ClientOrders
    BY <2>1, <2>2 DEF IndInv, OrdersInv
  <2>4. Cmd.order.rem = Cmd.order.orig /\ Cmd.order.orig \in Nat
    BY <2>3, PartitionAssumption, OrdersAssumption DEF Order
  <2>5. Of(Cmd.id, AllTrades) = {}
    BY <2>1, <2>2 DEF Of, Ledger, PartiesKnown
  <2>6. Traded(Cmd.id, AllTrades) = 0
    BY <2>5, TradedSum, QtySum!FoldEmpty
  <2>7. AllTrades' = AllTrades
    <3>1. ~Fill
      BY <1>3 DEF AcceptNew, Take, Fill, FillAt, CanFillAt
    <3>2. QED
      BY <1>2, <3>1
  <2>8. ASSUME NEW id \in OrderId, Live(id)'
        PROVE  orders'[id].orig - orders'[id].rem = Traded(id, AllTrades')
    <3>1. CASE id = Cmd.id
      <4>1. orders'[id] = Cmd.order
        BY <1>0, <2>1, <2>2, <3>1 DEF TypeOK
      <4>2. QED
        BY <2>4, <2>6, <2>7, <3>1, <4>1
    <3>2. CASE id # Cmd.id
      <4>1. orders'[id] = orders[id]
        BY <1>0, <2>1, <3>2 DEF TypeOK
      <4>2. Live(id)
        BY <2>8, <4>1 DEF Live
      <4>3. QED
        BY <2>7, <4>1, <4>2 DEF Ledger, SumsAgree, Managed
    <3>3. QED
      BY <3>1, <3>2
  <2>9. QED
    BY <2>8 DEF SumsAgree, Managed
<1>4. ASSUME ~Fill,
             \A id \in OrderId : Live(id)' =>
               /\ Live(id)
               /\ orders'[id].orig = orders[id].orig /\ orders'[id].rem = orders[id].rem
      PROVE  SumsAgree'
  <2>1. AllTrades' = AllTrades
    BY <1>2, <1>4
  <2>2. QED
    BY <1>4, <2>1 DEF Ledger, SumsAgree, Managed
<1>5. CASE ~Fill /\ ~AcceptNew
  <2>1. \/ UNCHANGED orders
        \/ StartModify \/ CancelResting \/ EndMatch \/ SettleTrade \/ RemoveIncoming
    BY <1>5 DEF Next, WorkerStep, DbStep, SubmitNew, SubmitAmend, FetchBatch, RejectNew,
       RejectUnknown, RejectCancel, SkipTrade, RestIncoming, IncomingDone,
       RunOrderTask, RunTradeTask, workerVars, dbVars, vars
  <2>2. CASE UNCHANGED orders
    BY <1>4, <1>5, <2>2 DEF Live
  <2>3. CASE StartModify
    <3>1. /\ batch # << >> /\ batch' = Tail(batch) /\ queue' = queue
          /\ Cmd.kind = "Modify"
      BY <2>3 DEF StartModify, Take
    <3>2. 1 \in DOMAIN Pending /\ Pending[1] = Cmd
      BY <1>0, <3>1, PendingTake
    <3>3. QED
      BY <3>1, <3>2 DEF NoModifies
  <2>4. CASE CancelResting \/ RemoveIncoming \/ SettleTrade
    <3>1. \A id \in OrderId : orders'[id] \in {orders[id], NoOrder}
      BY <1>0, <2>4 DEF CancelResting, RemoveIncoming, SettleTrade, TypeOK
    <3>2. QED
      BY <1>4, <1>5, <3>1 DEF Live
  <2>5. CASE EndMatch
    <3>1. /\ worker.id \in OrderId /\ Live(worker.id)
          /\ orders' = [orders EXCEPT ![worker.id].status = FinalStatus(Incoming)]
      BY <2>5 DEF EndMatch, IndInv, WorkerInv
    <3>2. orders[worker.id] \in Order
      BY <1>0, <3>1 DEF TypeOK, Live
    <3>3. ASSUME NEW id \in OrderId, Live(id)'
          PROVE  /\ Live(id)
                 /\ orders'[id].orig = orders[id].orig
                 /\ orders'[id].rem = orders[id].rem
      <4>1. CASE id = worker.id
        BY <1>0, <3>1, <3>2, <4>1 DEF TypeOK, Order
      <4>2. CASE id # worker.id
        BY <1>0, <3>1, <3>3, <4>2 DEF TypeOK, Live
      <4>3. QED
        BY <4>1, <4>2
    <3>4. QED
      BY <1>4, <1>5, <3>3
  <2>6. QED
    BY <2>1, <2>2, <2>3, <2>4, <2>5
<1>6. QED
  BY <1>1, <1>3, <1>5

(* As long as nobody modifies an order, the trades table explains every unit *)
(* an open order has lost since it was entered, once the database worker has *)
(* caught up: no fill is missing from it, and none is there twice.           *)
THEOREM TradesAddUp ==
  ASSUME "Modify" \notin AmendKinds
  PROVE  Spec => []TradesReconcile
<1> DEFINE Inv == NoModifies /\ IdleEmpty /\ TradeIdsKept /\ Ledger
<1>1. Init => Inv
  <2> SUFFICES ASSUME Init PROVE Inv
    OBVIOUS
  <2>1. DOMAIN Pending = {}
    <3>1. Len(Pending) = 0
      BY EmptySeq, ConcatProperties DEF Init, Pending
    <3>2. QED
      BY <3>1, InitInv, PendingType DEF IndInv
  <2>2. AllTrades = {} /\ Managed = {}
    BY DEF Init, IdleState, AllTrades, QueuedTrades, Managed, Live
  <2>3. QED
    BY <2>1, <2>2 DEF Init, IdleState, NoModifies, IdleEmpty, TradeIdsKept, Ledger,
       PartiesKnown, SumsAgree
<1>2. IndInv /\ Inv /\ [Next]_vars => Inv'
  BY NoModifiesStep, IdleEmptyStep, TradeIdsStep, PartiesStep, SumsStep DEF Ledger
<1>3. Inv => TradesReconcile
  <2>1. ASSUME Inv, Drained PROVE AllTrades = dbTrades
    BY <2>1 DEF Drained, Idle, IdleEmpty, AllTrades, QueuedTrades
  <2>2. QED
    BY <2>1 DEF TradesReconcile, Ledger, SumsAgree
<1> HIDE DEF Inv
<1>4. QED
  BY <1>1, <1>2, <1>3, Safety, PTL DEF Spec

-----------------------------------------------------------------------------
(* Rows: what appending a task, or running one, does to the row there will  *)
(* be.                                                                      *)

LEMMA AppendView ==
  ASSUME NEW q \in Seq(Task), NEW x \in Task
  PROVE  /\ Append(q, x) \in Seq(Task) /\ Len(q) \in Nat
         /\ DOMAIN q = 1..Len(q)
         /\ DOMAIN Append(q, x) = 1..(Len(q) + 1)
         /\ \A i \in DOMAIN q : Append(q, x)[i] = q[i]
         /\ Append(q, x)[Len(q) + 1] = x
         /\ \A i \in DOMAIN q : i < Len(q) + 1 /\ i > 0
BY AppendProperties, LenProperties

LEMMA AppendNoRemove ==
  ASSUME NEW q \in Seq(Task), NEW x \in Task, NEW id, NEW k \in 0..Len(q)
  PROVE  NoRemoveAfter(Append(q, x), k, id) <=>
           NoRemoveAfter(q, k, id) /\ ~(x.op = "remove" /\ x.id = id)
<1> DEFINE r == Append(q, x)
           n == Len(q) + 1
<1>1. /\ Len(q) \in Nat /\ DOMAIN q = 1..Len(q) /\ DOMAIN r = 1..n
      /\ \A i \in DOMAIN q : r[i] = q[i]
      /\ r[n] = x
  BY AppendView
<1> HIDE DEF r
<1>2. n \in DOMAIN r /\ n > k /\ \A i \in DOMAIN q : i \in DOMAIN r
  BY <1>1
<1>3. \A i \in DOMAIN r : i \in DOMAIN q \/ i = n
  BY <1>1
<1> HIDE DEF n
<1>4. QED
  BY <1>1, <1>2, <1>3 DEF NoRemoveAfter, r

(* What decides the row after one more task.                                *)
LEMMA AppendDecides ==
  ASSUME NEW q \in Seq(Task), NEW x \in Task, NEW id, NEW row
  PROVE  LET r == Append(q, x)
             gone == x.op = "remove" /\ x.id = id
             new == x.op \in {"save", "update"} /\ x.id = id
         IN /\ RowStays(r, row, id) <=> RowStays(q, row, id) /\ ~gone
            /\ \A i \in DOMAIN q : Decides(r, i, id) <=> Decides(q, i, id) /\ ~gone
            /\ Decides(r, Len(q) + 1, id) <=> new
<1> DEFINE r == Append(q, x)
           n == Len(q) + 1
           gone == x.op = "remove" /\ x.id = id
<1>1. /\ Len(q) \in Nat /\ DOMAIN q = 1..Len(q) /\ DOMAIN r = 1..n
      /\ \A i \in DOMAIN q : r[i] = q[i]
      /\ r[n] = x
  BY AppendView
<1>2. \A k \in 0..Len(q) : NoRemoveAfter(r, k, id) <=> NoRemoveAfter(q, k, id) /\ ~gone
  BY AppendNoRemove
<1>3. NoRemoveAfter(r, n, id)
  BY <1>1 DEF NoRemoveAfter
<1> HIDE DEF r, gone
<1>4. 0 \in 0..Len(q) /\ \A i \in DOMAIN q : i \in 0..Len(q)
  BY <1>1
<1>5. RowStays(r, row, id) <=> RowStays(q, row, id) /\ ~gone
  BY <1>2, <1>4 DEF RowStays
<1>6. \A i \in DOMAIN q : Decides(r, i, id) <=> Decides(q, i, id) /\ ~gone
  BY <1>1, <1>2, <1>4 DEF Decides
<1>7. Decides(r, n, id) <=> x.op \in {"save", "update"} /\ x.id = id
  BY <1>1, <1>3 DEF Decides
<1>8. QED
  BY <1>5, <1>6, <1>7 DEF r, gone

(* A task of another order, or a trade, changes nothing.                    *)
LEMMA AppendOther ==
  ASSUME NEW q \in Seq(Task), NEW x \in Task, NEW id, NEW row, NEW o,
         x.op = "trade" \/ x.id # id
  PROVE  /\ NotStored(q, row, id) => NotStored(Append(q, x), row, id)
         /\ Stored(q, row, id) => Stored(Append(q, x), row, id)
         /\ Agrees(q, row, o, id) => Agrees(Append(q, x), row, o, id)
<1> DEFINE r == Append(q, x)
<1>1. /\ Len(q) \in Nat /\ DOMAIN q = 1..Len(q) /\ DOMAIN r = 1..(Len(q) + 1)
      /\ \A i \in DOMAIN q : r[i] = q[i]
  BY AppendView
<1>2. /\ RowStays(r, row, id) <=> RowStays(q, row, id)
      /\ \A i \in DOMAIN q : Decides(r, i, id) <=> Decides(q, i, id)
      /\ ~Decides(r, Len(q) + 1, id)
  BY AppendDecides
<1> HIDE DEF r
<1>3. \A i \in DOMAIN r : i \in DOMAIN q \/ i = Len(q) + 1
  BY <1>1
<1>4. \A i \in DOMAIN q : i \in DOMAIN r
  BY <1>1
<1>5. QED
  BY <1>1, <1>2, <1>3, <1>4 DEF NotStored, Stored, Agrees, r

(* DELETE: there will be no row.                                            *)
LEMMA AppendRemove ==
  ASSUME NEW q \in Seq(Task), NEW id \in OrderId, NEW row
  PROVE  NotStored(Append(q, removeOrder(id)), row, id)
<1> DEFINE x == removeOrder(id)
           r == Append(q, x)
<1>1. x \in Task /\ x.op = "remove" /\ x.id = id
  BY TaskType DEF removeOrder
<1> HIDE DEF x
<1>2. Len(q) \in Nat /\ DOMAIN q = 1..Len(q) /\ DOMAIN r = 1..(Len(q) + 1)
  BY <1>1, AppendView
<1>3. /\ ~RowStays(r, row, id)
      /\ \A i \in DOMAIN q : ~Decides(r, i, id)
      /\ ~Decides(r, Len(q) + 1, id)
  BY <1>1, AppendDecides
<1> HIDE DEF r
<1>4. \A i \in DOMAIN r : i \in DOMAIN q \/ i = Len(q) + 1
  BY <1>2
<1>5. QED
  BY <1>3, <1>4 DEF NotStored, r, x

(* INSERT of an order whose row is gone, or agrees with it.                 *)
LEMMA AppendSave ==
  ASSUME NEW q \in Seq(Task), NEW id \in OrderId, NEW row, NEW o \in Order,
         NEW c \in Order, SameTerms(c, o), NotAhead(c, o),
         NotStored(q, row, id) \/ Agrees(q, row, o, id)
  PROVE  /\ Stored(Append(q, saveOrder(id, c)), row, id)
         /\ Agrees(Append(q, saveOrder(id, c)), row, o, id)
<1> DEFINE x == saveOrder(id, c)
           r == Append(q, x)
           n == Len(q) + 1
<1>1. x \in Task /\ x.op = "save" /\ x.id = id /\ x.order = c
  BY TaskType DEF saveOrder
<1> HIDE DEF x
<1>2. /\ Len(q) \in Nat /\ DOMAIN q = 1..Len(q) /\ DOMAIN r = 1..n
      /\ \A i \in DOMAIN q : r[i] = q[i]
      /\ r[n] = x
  BY <1>1, AppendView
<1>3. /\ RowStays(r, row, id) <=> RowStays(q, row, id)
      /\ \A i \in DOMAIN q : Decides(r, i, id) <=> Decides(q, i, id)
      /\ Decides(r, n, id)
  BY <1>1, AppendDecides
<1> HIDE DEF r
<1>4. n \in DOMAIN r /\ \A i \in DOMAIN r : i \in DOMAIN q \/ i = n
  BY <1>2
<1> HIDE DEF n
<1>5. Stored(r, row, id)
  BY <1>1, <1>2, <1>3, <1>4 DEF Stored
<1>6. RowStays(r, row, id) => SameTerms(row, o) /\ NotAhead(row, o)
  BY <1>3 DEF NotStored, Agrees
<1>7. ASSUME NEW i \in DOMAIN r, Decides(r, i, id)
      PROVE  NotAhead(r[i].order, o) /\ (r[i].op = "save" => SameTerms(r[i].order, o))
  <2>1. CASE i = n
    BY <1>1, <1>2, <2>1
  <2>2. CASE i \in DOMAIN q
    BY <1>2, <1>3, <1>7, <2>2 DEF NotStored, Agrees
  <2>3. QED
    BY <1>4, <2>1, <2>2
<1>8. Agrees(r, row, o, id)
  BY <1>6, <1>7 DEF Agrees
<1>9. QED
  BY <1>5, <1>8 DEF r, x

(* UPDATE with a copy that is not ahead of the order.                       *)
LEMMA AppendUpdate ==
  ASSUME NEW q \in Seq(Task), NEW id \in OrderId, NEW row, NEW o, NEW c \in Order
  PROVE  /\ Stored(q, row, id) => Stored(Append(q, updateOrder(id, c)), row, id)
         /\ Agrees(q, row, o, id) /\ NotAhead(c, o) =>
              Agrees(Append(q, updateOrder(id, c)), row, o, id)
<1> DEFINE x == updateOrder(id, c)
           r == Append(q, x)
           n == Len(q) + 1
<1>1. x \in Task /\ x.op = "update" /\ x.id = id /\ x.order = c
  BY TaskType DEF updateOrder
<1> HIDE DEF x
<1>2. /\ Len(q) \in Nat /\ DOMAIN q = 1..Len(q) /\ DOMAIN r = 1..n
      /\ \A i \in DOMAIN q : r[i] = q[i]
      /\ r[n] = x
  BY <1>1, AppendView
<1>3. /\ RowStays(r, row, id) <=> RowStays(q, row, id)
      /\ \A i \in DOMAIN q : Decides(r, i, id) <=> Decides(q, i, id)
  BY <1>1, AppendDecides
<1> HIDE DEF r
<1>4. /\ \A i \in DOMAIN q : i \in DOMAIN r
      /\ \A i \in DOMAIN r : i \in DOMAIN q \/ i = n
  BY <1>2
<1> HIDE DEF n
<1>5. Stored(q, row, id) => Stored(r, row, id)
  BY <1>2, <1>3, <1>4 DEF Stored
<1>6. ASSUME Agrees(q, row, o, id), NotAhead(c, o) PROVE Agrees(r, row, o, id)
  BY <1>1, <1>2, <1>3, <1>4, <1>6 DEF Agrees
<1>7. QED
  BY <1>5, <1>6 DEF r, x

(* A stored copy that is not ahead of an order is not ahead of it after a   *)
(* fill either.                                                             *)
LEMMA AgreesWithLess ==
  ASSUME NEW q \in Seq(Task), NEW id, NEW row \in Order \cup {NoOrder},
         NEW o \in Order, NEW p \in Order,
         Agrees(q, row, o, id), SameTerms(p, o), p.rem <= o.rem
  PROVE  Agrees(q, row, p, id)
<1>1. o.rem \in Nat /\ p.rem \in Nat
  BY DEF Order
<1>2. ASSUME NEW a \in Order, NotAhead(a, o) PROVE NotAhead(a, p)
  <2>1. a.rem \in Nat
    BY DEF Order
  <2>2. QED
    BY <1>1, <1>2, <2>1 DEF NotAhead, SameTerms
<1>3. ASSUME NEW a, SameTerms(a, o) PROVE SameTerms(a, p)
  BY <1>3 DEF SameTerms
<1>4. RowStays(q, row, id) => SameTerms(row, p) /\ NotAhead(row, p)
  BY <1>2, <1>3 DEF Agrees, RowStays
<1>5. ASSUME NEW i \in DOMAIN q, Decides(q, i, id)
      PROVE  NotAhead(q[i].order, p) /\ (q[i].op = "save" => SameTerms(q[i].order, p))
  <2>1. q[i] \in Task
    BY ElementOfSeq, LenProperties
  <2>2. q[i].order \in Order
    BY <1>5, <2>1 DEF Decides, Task
  <2>3. QED
    BY <1>2, <1>3, <1>5, <2>2 DEF Agrees
<1>6. QED
  BY <1>4, <1>5 DEF Agrees

(* The database worker runs the first task.                                 *)
LEMMA RunFirst ==
  ASSUME NEW q \in Seq(Task), q # << >>, NEW id, NEW o,
         NEW row \in Order \cup {NoOrder}
  PROVE  LET new == IF Head(q).op # "trade" /\ Head(q).id = id
                    THEN OrderRow(row, Head(q)) ELSE row
         IN /\ NotStored(q, row, id) => NotStored(Tail(q), new, id)
            /\ Stored(q, row, id) => Stored(Tail(q), new, id)
            /\ Agrees(q, row, o, id) => Agrees(Tail(q), new, o, id)
<1> DEFINE r == Tail(q)
           h == Head(q)
           new == IF h.op # "trade" /\ h.id = id THEN OrderRow(row, h) ELSE row
<1>1. /\ Len(q) \in Nat /\ Len(q) > 0 /\ DOMAIN q = 1..Len(q) /\ h = q[1]
      /\ DOMAIN r = 1..(Len(q) - 1) /\ h \in Task
      /\ \A i \in 1..(Len(q) - 1) : r[i] = q[i + 1]
  BY HeadTailProperties, LenProperties, EmptySeq
<1> HIDE DEF r, h
<1>2. \A i \in DOMAIN r : i + 1 \in DOMAIN q /\ r[i] = q[i + 1]
  BY <1>1
<1>3. 1 \in DOMAIN q /\ \A i \in DOMAIN q : i # 1 => i - 1 \in DOMAIN r /\ r[i - 1] = q[i]
  BY <1>1
<1>4. ASSUME NEW k \in 0..(Len(q) - 1)
      PROVE  NoRemoveAfter(r, k, id) <=> NoRemoveAfter(q, k + 1, id)
  <2>1. ASSUME NoRemoveAfter(r, k, id), NEW j \in DOMAIN q, j > k + 1
        PROVE  ~(q[j].op = "remove" /\ q[j].id = id)
    <3>1. j # 1 /\ j - 1 > k
      BY <1>1, <2>1
    <3>2. QED
      BY <1>3, <2>1, <3>1 DEF NoRemoveAfter
  <2>2. ASSUME NoRemoveAfter(q, k + 1, id), NEW j \in DOMAIN r, j > k
        PROVE  ~(r[j].op = "remove" /\ r[j].id = id)
    <3>1. j + 1 > k + 1
      BY <1>1, <2>2
    <3>2. QED
      BY <1>2, <2>2, <3>1 DEF NoRemoveAfter
  <2>3. QED
    BY <2>1, <2>2 DEF NoRemoveAfter
<1>5. ASSUME NEW i \in DOMAIN r PROVE Decides(r, i, id) <=> Decides(q, i + 1, id)
  <2>1. i \in 0..(Len(q) - 1)
    BY <1>1
  <2>2. QED
    BY <1>2, <1>4, <2>1 DEF Decides
<1>6. ASSUME NEW i \in DOMAIN q, i # 1 PROVE Decides(q, i, id) <=> Decides(r, i - 1, id)
  <2>1. i - 1 \in DOMAIN r /\ (i - 1) + 1 = i
    BY <1>1, <1>3, <1>6
  <2>2. QED
    BY <1>5, <2>1
<1>7. NoRemoveAfter(r, 0, id) <=> NoRemoveAfter(q, 1, id)
  BY <1>1, <1>4
<1>8. NoRemoveAfter(q, 0, id) <=>
        NoRemoveAfter(q, 1, id) /\ ~(h.op = "remove" /\ h.id = id)
  BY <1>1, <1>3 DEF NoRemoveAfter
<1>9. Decides(q, 1, id) <=>
        h.op \in {"save", "update"} /\ h.id = id /\ NoRemoveAfter(r, 0, id)
  BY <1>1, <1>7 DEF Decides
<1>10. /\ h.op \in {"save", "update", "remove", "trade"}
       /\ h.op \in {"save", "update"} => h.order \in Order
  BY <1>1 DEF Task
<1>11. CASE ~(h.op # "trade" /\ h.id = id)
  <2>1. new = row /\ ~Decides(q, 1, id)
    BY <1>9, <1>11
  <2>2. RowStays(r, new, id) <=> RowStays(q, row, id)
    BY <1>7, <1>8, <1>11, <2>1 DEF RowStays
  <2> HIDE DEF new
  <2>3. NotStored(q, row, id) => NotStored(r, new, id)
    BY <1>2, <1>5, <2>2 DEF NotStored
  <2>4. Stored(q, row, id) => Stored(r, new, id)
    <3> SUFFICES ASSUME NEW i \in DOMAIN q, Decides(q, i, id), q[i].op = "save"
                 PROVE  Stored(r, new, id)
      BY <2>2 DEF Stored
    <3>1. i # 1
      BY <2>1
    <3>2. QED
      BY <1>3, <1>6, <3>1 DEF Stored
  <2>5. Agrees(q, row, o, id) => Agrees(r, new, o, id)
    <3> SUFFICES ASSUME Agrees(q, row, o, id) PROVE Agrees(r, new, o, id)
      OBVIOUS
    <3>1. RowStays(r, new, id) => SameTerms(new, o) /\ NotAhead(new, o)
      BY <2>1, <2>2 DEF Agrees
    <3>2. QED
      BY <1>2, <1>5, <3>1 DEF Agrees
  <2>6. QED
    BY <2>3, <2>4, <2>5 DEF new, r, h
<1>12. CASE h.op = "remove" /\ h.id = id
  <2>1. new = NoOrder /\ ~Decides(q, 1, id)
    BY <1>9, <1>12 DEF OrderRow
  <2>2. ~RowStays(r, new, id) /\ ~RowStays(q, row, id)
    BY <1>8, <1>12, <2>1 DEF RowStays
  <2> HIDE DEF new
  <2>3. NotStored(q, row, id) => NotStored(r, new, id)
    BY <1>2, <1>5, <2>2 DEF NotStored
  <2>4. Stored(q, row, id) => Stored(r, new, id)
    <3> SUFFICES ASSUME NEW i \in DOMAIN q, Decides(q, i, id), q[i].op = "save"
                 PROVE  Stored(r, new, id)
      BY <2>2 DEF Stored
    <3>1. i # 1
      BY <2>1
    <3>2. QED
      BY <1>3, <1>6, <3>1 DEF Stored
  <2>5. Agrees(q, row, o, id) => Agrees(r, new, o, id)
    BY <1>2, <1>5, <2>2 DEF Agrees
  <2>6. QED
    BY <2>3, <2>4, <2>5 DEF new, r, h
<1>13. CASE h.op = "save" /\ h.id = id
  <2>1. new = (IF row = NoOrder THEN h.order ELSE row) /\ h.order \in Order
    BY <1>10, <1>13 DEF OrderRow
  <2>2. new # NoOrder
    BY <2>1, OrdersAssumption
  <2>3. RowStays(r, new, id) <=> NoRemoveAfter(r, 0, id)
    BY <2>2 DEF RowStays
  <2>4. RowStays(q, row, id) <=> row # NoOrder /\ NoRemoveAfter(r, 0, id)
    BY <1>7, <1>8, <1>13 DEF RowStays
  <2> HIDE DEF new
  <2>5. NotStored(q, row, id) => NotStored(r, new, id)
    BY <1>2, <1>3, <1>5, <1>9, <1>13, <2>3 DEF NotStored
  <2>6. Stored(q, row, id) => Stored(r, new, id)
    <3> SUFFICES ASSUME Stored(q, row, id) PROVE Stored(r, new, id)
      OBVIOUS
    <3>1. CASE NoRemoveAfter(r, 0, id)
      BY <2>3, <3>1 DEF Stored
    <3>2. CASE ~NoRemoveAfter(r, 0, id)
      <4>1. PICK i \in DOMAIN q : Decides(q, i, id) /\ q[i].op = "save"
        BY <2>4, <3>2 DEF Stored
      <4>2. i # 1
        BY <1>9, <3>2, <4>1
      <4>3. QED
        BY <1>3, <1>6, <4>1, <4>2 DEF Stored
    <3>3. QED
      BY <3>1, <3>2
  <2>7. Agrees(q, row, o, id) => Agrees(r, new, o, id)
    <3> SUFFICES ASSUME Agrees(q, row, o, id) PROVE Agrees(r, new, o, id)
      OBVIOUS
    <3>1. ASSUME RowStays(r, new, id) PROVE SameTerms(new, o) /\ NotAhead(new, o)
      <4>1. CASE row = NoOrder
        <5>1. Decides(q, 1, id)
          BY <1>9, <1>13, <2>3, <3>1
        <5>2. QED
          BY <1>1, <1>3, <1>13, <2>1, <4>1, <5>1 DEF Agrees
      <4>2. CASE row # NoOrder
        BY <2>1, <2>3, <2>4, <3>1, <4>2 DEF Agrees
      <4>3. QED
        BY <4>1, <4>2
    <3>2. QED
      BY <1>2, <1>5, <3>1 DEF Agrees
  <2>8. QED
    BY <2>5, <2>6, <2>7 DEF new, r, h
<1>14. CASE h.op = "update" /\ h.id = id
  <2>1. /\ row = NoOrder => new = NoOrder
        /\ row # NoOrder =>
             new = [row EXCEPT !.rem = h.order.rem, !.status = h.order.status]
    BY <1>14 DEF OrderRow
  <2>2. row # NoOrder =>
          /\ row \in Order /\ new \in Order /\ SameTerms(new, row)
          /\ new.rem = h.order.rem /\ new.status = h.order.status
    BY <1>10, <1>14, <2>1 DEF Order, SameTerms
  <2>3. new = NoOrder <=> row = NoOrder
    BY <2>1, <2>2, OrdersAssumption
  <2>4. RowStays(r, new, id) <=> RowStays(q, row, id)
    BY <1>7, <1>8, <1>14, <2>3 DEF RowStays
  <2> HIDE DEF new
  <2>5. NotStored(q, row, id) => NotStored(r, new, id)
    BY <1>2, <1>5, <2>4 DEF NotStored
  <2>6. Stored(q, row, id) => Stored(r, new, id)
    <3> SUFFICES ASSUME NEW i \in DOMAIN q, Decides(q, i, id), q[i].op = "save"
                 PROVE  Stored(r, new, id)
      BY <2>4 DEF Stored
    <3>1. i # 1
      BY <1>1, <1>14
    <3>2. QED
      BY <1>3, <1>6, <3>1 DEF Stored
  <2>7. Agrees(q, row, o, id) => Agrees(r, new, o, id)
    <3> SUFFICES ASSUME Agrees(q, row, o, id) PROVE Agrees(r, new, o, id)
      OBVIOUS
    <3>1. ASSUME RowStays(r, new, id) PROVE SameTerms(new, o) /\ NotAhead(new, o)
      <4>1. row # NoOrder /\ NoRemoveAfter(r, 0, id)
        BY <1>7, <1>8, <2>4, <3>1 DEF RowStays
      <4>2. Decides(q, 1, id)
        BY <1>9, <1>14, <4>1
      <4>3. NotAhead(h.order, o)
        BY <1>1, <1>3, <4>2 DEF Agrees
      <4>4. SameTerms(row, o)
        BY <2>4, <3>1 DEF Agrees
      <4>5. QED
        BY <2>2, <4>1, <4>3, <4>4 DEF SameTerms, NotAhead
    <3>2. QED
      BY <1>2, <1>5, <3>1 DEF Agrees
  <2>8. QED
    BY <2>5, <2>6, <2>7 DEF new, r, h
<1>15. QED
  BY <1>10, <1>11, <1>12, <1>13, <1>14

(* RowsInv of one order, in terms of the values it speaks of.               *)
RowOK(q, row, o, w, id) ==
  IF o # NoOrder
  THEN /\ Stored(q, row, id) /\ Agrees(q, row, o, id)
       /\ o.type = "Limit" => o.status # "Cancelled"
       /\ o.type = "Market" => w.pc # "idle" /\ w.id = id /\ w.kind = "New"
  ELSE NotStored(q, row, id)

LEMMA RowsIff ==
  RowsInv <=> \A id \in OrderId : RowOK(dbQueue, dbOrders[id], orders[id], worker, id)
BY DEF RowsInv, RowOK, Live

LEMMA RowsIffNext ==
  RowsInv' <=> \A id \in OrderId : RowOK(dbQueue', dbOrders'[id], orders'[id], worker', id)
BY DEF RowsInv, RowOK, Live

(* A task of another order, or a trade, keeps it.                           *)
LEMMA RowOther ==
  ASSUME NEW q \in Seq(Task), NEW x \in Task, NEW id, NEW row, NEW o, NEW w,
         x.op = "trade" \/ x.id # id, RowOK(q, row, o, w, id)
  PROVE  RowOK(Append(q, x), row, o, w, id)
BY AppendOther DEF RowOK

(* A live order is not ahead of itself as long as it has quantity left.     *)
LEMMA NotAheadOfItself ==
  ASSUME NEW o \in Order, o.status = "Filled" => o.rem = 0, o.rem # 0,
         o.type = "Limit" => o.status # "Cancelled"
  PROVE  SameTerms(o, o) /\ NotAhead(o, o)
BY DEF Order, OrderStatus, SameTerms, NotAhead

LEMMA AppendOne ==
  ASSUME NEW q \in Seq(Task), NEW x \in Task
  PROVE  q \o <<x>> = Append(q, x)
BY AppendIsConcat

LEMMA TwoTasks ==
  ASSUME NEW x \in Task, NEW y \in Task
  PROVE  Append(<<x>>, y) = <<x, y>>
<1> DEFINE a == Append(<<x>>, y)
           b == <<x, y>>
<1>1. <<x>> \in Seq(Task) /\ Len(<<x>>) = 1 /\ <<x>>[1] = x
  OBVIOUS
<1>2. a \in Seq(Task) /\ Len(a) = 2 /\ a[1] = x /\ a[2] = y
  BY <1>1, AppendProperties
<1>3. b \in Seq(Task) /\ Len(b) = 2 /\ b[1] = x /\ b[2] = y
  OBVIOUS
<1> HIDE DEF a, b
<1>4. \A i \in 1..Len(a) : a[i] = b[i]
  BY <1>2, <1>3
<1>5. a = b
  BY <1>2, <1>3, <1>4, SeqEqual
<1>6. QED
  BY <1>5 DEF a, b

LEMMA TasksAssociative ==
  ASSUME NEW a \in Seq(Task), NEW b \in Seq(Task), NEW c \in Seq(Task)
  PROVE  (a \o b) \o c = a \o (b \o c)
<1> DEFINE S == Task
<1>1. a \in Seq(S) /\ b \in Seq(S) /\ c \in Seq(S)
  OBVIOUS
<1> HIDE DEF S
<1>2. QED
  BY <1>1, ConcatAssociative

(* Progress of an order leaves its terms alone.                             *)
WithProgress(o, n, st) == [o EXCEPT !.rem = n, !.status = st]

LEMMA Progress ==
  ASSUME NEW o \in Order, NEW n \in Nat, NEW st \in OrderStatus
  PROVE  /\ WithProgress(o, n, st) \in Order /\ SameTerms(WithProgress(o, n, st), o)
         /\ WithProgress(o, n, st).rem = n /\ WithProgress(o, n, st).status = st
BY DEF Order, SameTerms, WithProgress

(* Steps that persist nothing: a fill and the end of the matching loop      *)
(* change the orders, the others only the worker.                           *)
LEMMA RowsFill ==
  ASSUME IndInv, IndInv', RowsInv, Fill
  PROVE  RowsInv'
<1>0. TypeOK /\ TypeOK'
  BY DEF IndInv
<1>1. PICK r \in OrderId, q \in Nat, t \in Trade :
        /\ worker.id \in OrderId /\ r # worker.id
        /\ Incoming \in Order /\ orders[r] \in Order
        /\ q <= Incoming.rem /\ q <= orders[r].rem
        /\ orders'[worker.id] = FillIncoming(Incoming, q)
        /\ orders'[r] = FillResting(orders[r], q)
        /\ \A id \in OrderId \ {worker.id, r} : orders'[id] = orders[id]
        /\ worker' = [worker EXCEPT !.trades = Append(@, t)]
        /\ UNCHANGED <<dbQueue, dbOrders>>
  BY FillEffect
<1>2. worker'.id = worker.id /\ worker'.kind = worker.kind /\ worker'.pc = worker.pc
  BY <1>0, <1>1, TradeAppended
<1>3. dbQueue \in Seq(Task)
  BY <1>0 DEF TypeOK
<1>4. ASSUME NEW id \in {worker.id, r}
      PROVE  /\ orders'[id] \in Order /\ orders[id] \in Order
             /\ SameTerms(orders'[id], orders[id])
             /\ orders'[id].rem <= orders[id].rem
             /\ orders'[id].status # "Cancelled"
  <2>1. q \in Nat /\ Incoming.rem \in Nat /\ orders[r].rem \in Nat
    BY <1>1 DEF Order
  <2>2. CASE id = worker.id
    <3>1. Incoming.rem - q \in Nat /\ Incoming.rem - q <= Incoming.rem
      BY <1>1, <2>1
    <3>2. "PartiallyFilled" \in OrderStatus
      BY DEF OrderStatus
    <3>3. orders'[id] = WithProgress(Incoming, Incoming.rem - q, "PartiallyFilled")
      BY <1>1, <2>2 DEF FillIncoming, WithProgress
    <3>4. Incoming = orders[id]
      BY <2>2 DEF Incoming
    <3>5. /\ orders'[id] \in Order /\ SameTerms(orders'[id], Incoming)
          /\ orders'[id].rem = Incoming.rem - q /\ orders'[id].status = "PartiallyFilled"
      BY <1>1, <3>1, <3>2, <3>3, Progress
    <3>6. QED
      BY <1>1, <3>1, <3>4, <3>5
  <2>3. CASE id = r
    <3> DEFINE st == IF orders[r].rem = q THEN "Filled" ELSE "PartiallyFilled"
    <3>1. orders[r].rem - q \in Nat /\ orders[r].rem - q <= orders[r].rem
      BY <1>1, <2>1
    <3>2. st \in OrderStatus /\ st # "Cancelled"
      BY DEF OrderStatus
    <3>3. orders'[id] = WithProgress(orders[r], orders[r].rem - q, st)
      BY <1>1, <2>3 DEF FillResting, WithProgress
    <3> HIDE DEF st
    <3>4. /\ orders'[id] \in Order /\ SameTerms(orders'[id], orders[r])
          /\ orders'[id].rem = orders[r].rem - q /\ orders'[id].status = st
      BY <1>1, <3>1, <3>2, <3>3, Progress
    <3>5. QED
      BY <1>1, <2>3, <3>1, <3>2, <3>4
  <2>4. QED
    BY <2>2, <2>3
<1>5. ASSUME NEW id \in OrderId
      PROVE  RowOK(dbQueue', dbOrders'[id], orders'[id], worker', id)
  <2>1. RowOK(dbQueue, dbOrders[id], orders[id], worker, id)
    BY RowsIff
  <2>2. CASE id \notin {worker.id, r}
    BY <1>1, <1>2, <2>1, <2>2 DEF RowOK
  <2>3. CASE id \in {worker.id, r}
    <3>1. orders[id] # NoOrder /\ orders'[id] # NoOrder
      BY <1>4, <2>3, OrdersAssumption
    <3>2. dbOrders[id] \in Order \cup {NoOrder}
      BY <1>0 DEF TypeOK
    <3>3. Agrees(dbQueue, dbOrders[id], orders'[id], id)
      BY <1>3, <1>4, <2>1, <2>3, <3>1, <3>2, AgreesWithLess DEF RowOK
    <3>4. QED
      BY <1>1, <1>2, <1>4, <2>1, <2>3, <3>1, <3>3 DEF RowOK, SameTerms
  <2>4. QED
    BY <2>2, <2>3
<1>6. QED
  BY <1>5, RowsIffNext

LEMMA RowsEndMatch ==
  ASSUME IndInv, RowsInv, EndMatch
  PROVE  RowsInv'
<1>0. TypeOK /\ WorkerInv
  BY DEF IndInv
<1>1. /\ worker.id \in OrderId /\ Live(worker.id) /\ worker.pc = "match"
      /\ orders' = [orders EXCEPT ![worker.id].status = FinalStatus(Incoming)]
      /\ worker'.id = worker.id /\ worker'.kind = worker.kind /\ worker'.pc = "settle"
      /\ UNCHANGED <<dbQueue, dbOrders>>
  BY <1>0 DEF EndMatch, WorkerInv, TypeOK, Worker, dbVars
<1>2. Incoming \in Order /\ dbQueue \in Seq(Task)
  BY <1>0, <1>1 DEF Live, Incoming, TypeOK
<1>3. FinalStatus(Incoming) \in OrderStatus
  BY <1>2 DEF FinalStatus, OrderStatus, Order
<1>4. /\ orders'[worker.id] \in Order /\ SameTerms(orders'[worker.id], Incoming)
      /\ orders'[worker.id].rem <= Incoming.rem
      /\ orders'[worker.id].status = FinalStatus(Incoming)
  <2>1. orders'[worker.id] = [Incoming EXCEPT !.status = FinalStatus(Incoming)]
    BY <1>0, <1>1 DEF TypeOK, Incoming
  <2>2. Incoming.rem \in Nat
    BY <1>2 DEF Order
  <2> HIDE DEF Incoming
  <2>3. orders'[worker.id] = WithProgress(Incoming, Incoming.rem, FinalStatus(Incoming))
    BY <1>2, <2>1 DEF Order, WithProgress
  <2>4. /\ orders'[worker.id] \in Order /\ SameTerms(orders'[worker.id], Incoming)
        /\ orders'[worker.id].rem = Incoming.rem
        /\ orders'[worker.id].status = FinalStatus(Incoming)
    BY <1>2, <1>3, <2>2, <2>3, Progress
  <2>5. QED
    BY <2>2, <2>4
<1>5. ASSUME NEW id \in OrderId
      PROVE  RowOK(dbQueue', dbOrders'[id], orders'[id], worker', id)
  <2>1. RowOK(dbQueue, dbOrders[id], orders[id], worker, id)
    BY RowsIff
  <2>2. CASE id # worker.id
    <3>1. orders'[id] = orders[id]
      BY <1>0, <1>1, <2>2 DEF TypeOK
    <3>2. QED
      BY <1>1, <2>1, <3>1 DEF RowOK
  <2>3. CASE id = worker.id
    <3>1. orders[id] = Incoming /\ orders[id] # NoOrder /\ orders'[id] # NoOrder
      BY <1>2, <1>4, <2>3, OrdersAssumption DEF Incoming
    <3>2. dbOrders[id] \in Order \cup {NoOrder}
      BY <1>0 DEF TypeOK
    <3>3. Agrees(dbQueue, dbOrders[id], orders'[id], id)
      BY <1>2, <1>4, <2>1, <2>3, <3>1, <3>2, AgreesWithLess DEF RowOK
    <3>4. Incoming.type = "Limit" => FinalStatus(Incoming) # "Cancelled"
      BY <2>1, <3>1 DEF RowOK, FinalStatus
    <3>5. QED
      BY <1>1, <1>4, <2>1, <2>3, <3>1, <3>3, <3>4 DEF RowOK, SameTerms
  <2>4. QED
    BY <2>2, <2>3
<1>6. QED
  BY <1>5, RowsIffNext

(* q is the task queue with the tasks of the settled trade t, one by one.   *)
SettledTo(q, t) ==
  \E q1, q2, q3, q4 \in Seq(Task) :
    /\ q1 = dbQueue \/ q1 = Append(dbQueue, addTrade(t))
    /\ q2 = Append(q1, updateOrder(t.buy, orders[t.buy]))
    /\ q3 = Append(q2, updateOrder(t.sell, orders[t.sell]))
    /\ q4 = IF orders[t.buy].rem = 0 THEN Append(q3, removeOrder(t.buy)) ELSE q3
    /\ q = IF orders[t.sell].rem = 0 THEN Append(q4, removeOrder(t.sell)) ELSE q4

LEMMA SettleQueue ==
  ASSUME TypeOK, NEW t \in Trade, Live(t.buy), Live(t.sell)
  PROVE  SettledTo(dbQueue \o (PostTrade(t)
                               \o <<updateOrder(t.buy, orders[t.buy]),
                                    updateOrder(t.sell, orders[t.sell])>>
                               \o RemoveIfFilled(t.buy) \o RemoveIfFilled(t.sell)), t)
<1> DEFINE ub == updateOrder(t.buy, orders[t.buy])
           us == updateOrder(t.sell, orders[t.sell])
           p == PostTrade(t)
           rb == RemoveIfFilled(t.buy)
           rs == RemoveIfFilled(t.sell)
           q1 == dbQueue \o p
           q2 == Append(q1, ub)
           q3 == Append(q2, us)
           q4 == q3 \o rb
           q5 == q4 \o rs
<1>1. /\ dbQueue \in Seq(Task) /\ ub \in Task /\ us \in Task
      /\ addTrade(t) \in Task
      /\ removeOrder(t.buy) \in Task /\ removeOrder(t.sell) \in Task
  <2>1. /\ t.buy \in OrderId /\ t.sell \in OrderId
        /\ orders[t.buy] \in Order /\ orders[t.sell] \in Order
    BY DEF Trade, TypeOK, Live
  <2>2. QED
    BY <2>1, TaskType DEF TypeOK, addTrade, Task
<1>2. p = << >> \/ p = <<addTrade(t)>>
  BY DEF PostTrade
<1>3. /\ rb = IF orders[t.buy].rem = 0 THEN <<removeOrder(t.buy)>> ELSE << >>
      /\ rs = IF orders[t.sell].rem = 0 THEN <<removeOrder(t.sell)>> ELSE << >>
  BY DEF RemoveIfFilled
<1>4. p \in Seq(Task) /\ rb \in Seq(Task) /\ rs \in Seq(Task)
  <2>1. << >> \in Seq(Task) /\ \A x \in Task : <<x>> \in Seq(Task)
    BY EmptySeq
  <2>2. QED
    BY <1>1, <1>2, <1>3, <2>1
<1> HIDE DEF ub, us, p, rb, rs
<1>5. q1 \in Seq(Task) /\ (q1 = dbQueue \/ q1 = Append(dbQueue, addTrade(t)))
  BY <1>1, <1>2, <1>4, AppendOne, ConcatEmptySeq, ConcatProperties
<1> HIDE DEF q1
<1>6. q2 \in Seq(Task)
  BY <1>1, <1>5, AppendProperties
<1> HIDE DEF q2
<1>7. q3 \in Seq(Task)
  BY <1>1, <1>6, AppendProperties
<1> HIDE DEF q3
<1>8. /\ q4 \in Seq(Task)
      /\ q4 = IF orders[t.buy].rem = 0 THEN Append(q3, removeOrder(t.buy)) ELSE q3
  BY <1>1, <1>3, <1>4, <1>7, AppendOne, ConcatEmptySeq, ConcatProperties
<1> HIDE DEF q4
<1>9. /\ q5 \in Seq(Task)
      /\ q5 = IF orders[t.sell].rem = 0 THEN Append(q4, removeOrder(t.sell)) ELSE q4
  BY <1>1, <1>3, <1>4, <1>8, AppendOne, ConcatEmptySeq, ConcatProperties
<1>10. q5 = dbQueue \o (p \o <<ub, us>> \o rb \o rs)
  <2> DEFINE both == <<ub, us>>
  <2>1. both \in Seq(Task) /\ <<ub>> \in Seq(Task) /\ <<us>> \in Seq(Task)
        /\ <<ub>> \o <<us>> = both
    <3>1. both \in Seq(Task) /\ <<ub>> \in Seq(Task) /\ <<us>> \in Seq(Task)
      BY <1>1
    <3>2. <<ub>> \o <<us>> = Append(<<ub>>, us)
      BY <1>1, <3>1, AppendOne
    <3>3. Append(<<ub>>, us) = both
      BY <1>1, TwoTasks
    <3>4. QED
      BY <3>1, <3>2, <3>3
  <2> HIDE DEF both
  <2>2. q2 = q1 \o <<ub>> /\ q3 = q2 \o <<us>>
    BY <1>1, <1>5, <1>6, AppendOne DEF q2, q3
  <2>3. q3 = q1 \o both
    BY <1>5, <2>1, <2>2, TasksAssociative, Zenon
  <2> DEFINE m == p \o both
             n == m \o rb
  <2>4. m \in Seq(Task) /\ q3 = dbQueue \o m
    <3>1. m \in Seq(Task)
      BY <1>4, <2>1, ConcatProperties
    <3>2. dbQueue \o (p \o both) = (dbQueue \o p) \o both
      BY <1>1, <1>4, <2>1, TasksAssociative, Zenon
    <3>3. QED
      BY <2>3, <3>1, <3>2 DEF q1
  <2> HIDE DEF m
  <2>5. n \in Seq(Task) /\ q4 = dbQueue \o n
    <3>1. n \in Seq(Task)
      BY <1>4, <2>4, ConcatProperties
    <3>2. dbQueue \o (m \o rb) = (dbQueue \o m) \o rb
      BY <1>1, <1>4, <2>4, TasksAssociative, Zenon
    <3>3. QED
      BY <2>4, <3>1, <3>2 DEF q4
  <2> HIDE DEF n
  <2>6. q5 = dbQueue \o (n \o rs)
    BY <1>1, <1>4, <2>5, TasksAssociative, Zenon DEF q5
  <2>7. QED
    BY <2>6 DEF n, m, both
<1> HIDE DEF q5
<1>11. SettledTo(q5, t)
  BY <1>5, <1>6, <1>7, <1>8, <1>9, Zenon DEF SettledTo, q2, q3, ub, us
<1>12. QED
  BY <1>10, <1>11, Zenon DEF ub, us, p, rb, rs

LEMMA RowsSettle ==
  ASSUME IndInv, RowsInv, SettleTrade
  PROVE  RowsInv'
<1>0. TypeOK /\ OrdersInv
  BY DEF IndInv
<1> DEFINE t == Head(worker.trades)
<1>1. /\ worker.trades # << >> /\ Live(t.buy) /\ Live(t.sell)
      /\ worker' = [worker EXCEPT !.trades = Tail(@)]
      /\ orders' = [i \in OrderId |->
                      IF i \in {t.buy, t.sell} /\ orders[i].rem = 0
                      THEN NoOrder ELSE orders[i]]
      /\ dbQueue' = dbQueue \o (PostTrade(t)
                                 \o <<updateOrder(t.buy, orders[t.buy]),
                                      updateOrder(t.sell, orders[t.sell])>>
                                 \o RemoveIfFilled(t.buy) \o RemoveIfFilled(t.sell))
      /\ dbOrders' = dbOrders
  BY DEF SettleTrade, Persist
<1>2. /\ worker'.id = worker.id /\ worker'.kind = worker.kind /\ worker'.pc = worker.pc
      /\ t \in Trade
  BY <1>0, <1>1, TradeTaken
<1>3. t.buy \in OrderId /\ t.sell \in OrderId
  BY <1>2 DEF Trade
<1> HIDE DEF t
<1>Q. SettledTo(dbQueue', t)
  BY <1>0, <1>1, <1>2, SettleQueue
<1>4. PICK q1, q2, q3, q4 \in Seq(Task) :
        /\ q1 = dbQueue \/ q1 = Append(dbQueue, addTrade(t))
        /\ q2 = Append(q1, updateOrder(t.buy, orders[t.buy]))
        /\ q3 = Append(q2, updateOrder(t.sell, orders[t.sell]))
        /\ q4 = IF orders[t.buy].rem = 0 THEN Append(q3, removeOrder(t.buy)) ELSE q3
        /\ dbQueue' = IF orders[t.sell].rem = 0 THEN Append(q4, removeOrder(t.sell)) ELSE q4
  BY <1>Q DEF SettledTo
<1>5. dbQueue \in Seq(Task) /\ addTrade(t) \in Task /\ addTrade(t).op = "trade"
  BY <1>0, <1>2 DEF TypeOK, addTrade, Task
<1>6. ASSUME NEW id \in {t.buy, t.sell}
      PROVE  /\ orders[id] \in Order
             /\ removeOrder(id) \in Task /\ removeOrder(id).id = id
             /\ updateOrder(id, orders[id]) \in Task
             /\ updateOrder(id, orders[id]).id = id
  <2>1. id \in OrderId /\ orders[id] \in Order
    BY <1>0, <1>1, <1>3 DEF TypeOK, Live
  <2>2. QED
    BY <2>1, TaskType DEF removeOrder, updateOrder
<1>7. ASSUME NEW id \in OrderId
      PROVE  RowOK(dbQueue', dbOrders'[id], orders'[id], worker', id)
  <2> DEFINE row == dbOrders[id]
             o == orders[id]
  <2>1. RowOK(dbQueue, row, o, worker, id)
    BY RowsIff
  <2>2. RowOK(q1, row, o, worker, id)
    BY <1>4, <1>5, <2>1, RowOther
  <2>3. CASE id \notin {t.buy, t.sell}
    <3>1. RowOK(q2, row, o, worker, id)
      BY <1>4, <1>6, <2>2, <2>3, RowOther
    <3>2. RowOK(q3, row, o, worker, id)
      BY <1>4, <1>6, <2>3, <3>1, RowOther
    <3>3. RowOK(q4, row, o, worker, id)
      BY <1>4, <1>6, <2>3, <3>2, RowOther
    <3>4. RowOK(dbQueue', row, o, worker, id)
      BY <1>4, <1>6, <2>3, <3>3, RowOther
    <3>5. orders'[id] = o
      BY <1>1, <2>3
    <3>6. QED
      BY <1>1, <1>2, <1>4, <3>4, <3>5 DEF RowOK
  <2>4. CASE id \in {t.buy, t.sell} /\ o.rem # 0
    <3>1. o \in Order /\ o # NoOrder /\ orders'[id] = o
      BY <1>1, <1>6, <2>4, OrdersAssumption
    <3>2. SameTerms(o, o) /\ NotAhead(o, o)
      <4>1. o.status = "Filled" => o.rem = 0
        BY <1>0, <3>1 DEF OrdersInv, Live
      <4>2. o.type = "Limit" => o.status # "Cancelled"
        BY <2>1, <3>1 DEF RowOK
      <4>3. QED
        BY <2>4, <3>1, <4>1, <4>2, NotAheadOfItself
    <3>3. ASSUME NEW q \in Seq(Task), RowOK(q, row, o, worker, id)
          PROVE  RowOK(Append(q, updateOrder(id, o)), row, o, worker, id)
      BY <3>1, <3>2, <3>3, AppendUpdate DEF RowOK
    <3>4. RowOK(q2, row, o, worker, id)
      <4>1. CASE id = t.buy
        BY <1>4, <2>2, <3>3, <4>1
      <4>2. CASE id # t.buy
        BY <1>4, <1>6, <2>2, <4>2, RowOther
      <4>3. QED
        BY <4>1, <4>2
    <3>5. RowOK(q3, row, o, worker, id)
      <4>1. CASE id = t.sell
        BY <1>4, <3>3, <3>4, <4>1
      <4>2. CASE id # t.sell
        BY <1>4, <1>6, <3>4, <4>2, RowOther
      <4>3. QED
        BY <4>1, <4>2
    <3>6. RowOK(q4, row, o, worker, id)
      BY <1>4, <1>6, <2>4, <3>5, RowOther
    <3>7. RowOK(dbQueue', row, o, worker, id)
      BY <1>4, <1>6, <2>4, <3>6, RowOther
    <3>8. QED
      BY <1>1, <1>2, <1>4, <3>1, <3>7 DEF RowOK
  <2>5. CASE id \in {t.buy, t.sell} /\ o.rem = 0
    <3>1. orders'[id] = NoOrder
      BY <1>1, <2>5
    <3>2. NotStored(dbQueue', row, id)
      <4>1. CASE id = t.sell
        BY <1>4, <2>5, <4>1, AppendRemove
      <4>2. CASE id # t.sell
        <5>1. q4 = Append(q3, removeOrder(id))
          BY <1>4, <2>5, <4>2
        <5>2. NotStored(q4, row, id)
          BY <1>4, <5>1, AppendRemove
        <5>3. QED
          BY <1>4, <1>6, <4>2, <5>2, AppendOther
      <4>3. QED
        BY <4>1, <4>2
    <3>3. QED
      BY <1>1, <1>4, <3>1, <3>2 DEF RowOK
  <2>6. QED
    BY <2>3, <2>4, <2>5
<1>8. QED
  BY <1>7, RowsIffNext

(* A command that names an order not in the manager, or one that is         *)
(* answered without a change, leaves the rows alone.                        *)
LEMMA RowsSame ==
  ASSUME RowsInv, UNCHANGED <<orders, worker, dbQueue, dbOrders>>
  PROVE  RowsInv'
BY RowsIff, RowsIffNext

(* Between commands there is no market order.                               *)
LEMMA IdleLimit ==
  ASSUME TypeOK, RowsInv, worker.pc = "idle", NEW id \in OrderId, Live(id)
  PROVE  orders[id].type = "Limit"
<1>1. orders[id] \in Order
  BY DEF TypeOK, Live
<1>2. QED
  BY <1>1 DEF RowsInv, Order, OrderType

LEMMA RowsAccept ==
  ASSUME IndInv, RowsInv, AcceptNew
  PROVE  RowsInv'
<1>0. TypeOK /\ NewIdsFresh /\ OrdersInv
  BY DEF IndInv
<1> DEFINE c == Cmd.id
           o == Cmd.order
<1>1. /\ batch # << >> /\ Cmd.kind = "New" /\ worker.pc = "idle"
      /\ batch' = Tail(batch) /\ queue' = queue
      /\ orders' = [orders EXCEPT ![c] = o]
      /\ dbQueue' = dbQueue \o <<saveOrder(c, o)>>
      /\ dbOrders' = dbOrders
      /\ worker' = Matching("New", c)
  BY DEF AcceptNew, Take, Persist
<1>2. c \in OrderId /\ o \in Order
  BY <1>0, <1>1, CmdType
<1>3. ~Live(c) /\ o \in ClientOrders
  <2>1. 1 \in DOMAIN Pending /\ Pending[1] = Cmd
    BY <1>0, <1>1, PendingTake
  <2>2. QED
    BY <1>1, <2>1, <1>0 DEF NewIdsFresh, OrdersInv
<1>4. /\ dbQueue \in Seq(Task) /\ saveOrder(c, o) \in Task /\ saveOrder(c, o).id = c
  BY <1>0, <1>2, TaskType DEF TypeOK, saveOrder
<1> HIDE DEF c, o
<1>5. dbQueue' = Append(dbQueue, saveOrder(c, o))
  BY <1>1, <1>4, AppendOne
<1>6. o.status = "New" /\ SameTerms(o, o) /\ NotAhead(o, o)
  <2>1. o.status = "New" /\ o.rem \in Nat
    BY <1>2, <1>3, PartitionAssumption DEF Order
  <2>2. QED
    BY <2>1 DEF SameTerms, NotAhead
<1>7. ASSUME NEW id \in OrderId
      PROVE  RowOK(dbQueue', dbOrders'[id], orders'[id], worker', id)
  <2>1. RowOK(dbQueue, dbOrders[id], orders[id], worker, id)
    BY RowsIff
  <2>2. CASE id = c
    <3>1. orders'[id] = o /\ o # NoOrder
      BY <1>0, <1>1, <1>2, <2>2, OrdersAssumption DEF TypeOK
    <3>2. NotStored(dbQueue, dbOrders[id], id)
      BY <1>3, <2>1, <2>2 DEF RowOK, Live
    <3>3. /\ Stored(dbQueue', dbOrders[id], id)
          /\ Agrees(dbQueue', dbOrders[id], o, id)
      BY <1>2, <1>4, <1>5, <1>6, <2>2, <3>2, AppendSave
    <3>4. QED
      BY <1>1, <1>6, <2>2, <3>1, <3>3 DEF RowOK, Matching
  <2>3. CASE id # c
    <3>1. orders'[id] = orders[id]
      BY <1>0, <1>1, <2>3 DEF TypeOK
    <3>2. RowOK(dbQueue', dbOrders[id], orders[id], worker, id)
      BY <1>4, <1>5, <2>1, <2>3, RowOther
    <3>3. orders[id] # NoOrder => orders[id].type = "Limit"
      BY <1>0, <1>1, IdleLimit DEF Live
    <3>4. QED
      BY <1>1, <3>1, <3>2, <3>3 DEF RowOK
  <2>4. QED
    BY <2>2, <2>3
<1>8. QED
  BY <1>7, RowsIffNext

(* An order leaves the manager and its DELETE is queued.                    *)
LEMMA RowsRemove ==
  ASSUME TypeOK, RowsInv, NEW c \in OrderId,
         orders' = [orders EXCEPT ![c] = NoOrder],
         dbQueue' = dbQueue \o <<removeOrder(c)>>, dbOrders' = dbOrders,
         \A id \in OrderId : id # c /\ Live(id) /\ orders[id].type = "Market" =>
           worker' = worker
  PROVE  RowsInv'
<1>1. dbQueue \in Seq(Task) /\ removeOrder(c) \in Task /\ removeOrder(c).id = c
  BY TaskType DEF TypeOK, removeOrder
<1>2. dbQueue' = Append(dbQueue, removeOrder(c))
  BY <1>1, AppendOne
<1>3. ASSUME NEW id \in OrderId
      PROVE  RowOK(dbQueue', dbOrders'[id], orders'[id], worker', id)
  <2>1. RowOK(dbQueue, dbOrders[id], orders[id], worker, id)
    BY RowsIff
  <2>2. CASE id = c
    BY <1>1, <1>2, <2>2, AppendRemove DEF RowOK, TypeOK
  <2>3. CASE id # c
    <3>1. orders'[id] = orders[id]
      BY <2>3 DEF TypeOK
    <3>2. RowOK(dbQueue', dbOrders[id], orders[id], worker, id)
      BY <1>1, <1>2, <2>1, <2>3, RowOther
    <3>3. QED
      BY <2>3, <3>1, <3>2 DEF RowOK, Live
  <2>4. QED
    BY <2>2, <2>3
<1>4. QED
  BY <1>3, RowsIffNext

LEMMA RowsModify ==
  ASSUME IndInv, RowsInv, StartModify
  PROVE  RowsInv'
<1>0. TypeOK
  BY DEF IndInv
<1> DEFINE c == Cmd.id
           o == Replaced(orders[c], Cmd)
<1>1. /\ batch # << >> /\ Cmd.kind = "Modify" /\ worker.pc = "idle" /\ Live(c)
      /\ orders' = [orders EXCEPT ![c] = o]
      /\ dbQueue' = dbQueue \o <<removeOrder(c), saveOrder(c, o)>>
      /\ dbOrders' = dbOrders
  BY DEF StartModify, Take, Persist
<1>2. c \in OrderId /\ Cmd.price \in Prices /\ Cmd.qty \in Quantities
  BY <1>0, <1>1, CmdType
<1>3. orders[c] \in Order /\ orders[c].type = "Limit"
  BY <1>0, <1>1, <1>2, IdleLimit DEF TypeOK, Live
<1>4. o \in Order /\ o.type = "Limit" /\ o.status = "New"
  <2>1. Cmd.qty \in Nat
    BY <1>2, OrdersAssumption
  <2>2. QED
    BY <1>2, <1>3, <2>1 DEF Replaced, Order, OrderStatus
<1> HIDE DEF c, o
<1>5. /\ dbQueue \in Seq(Task)
      /\ removeOrder(c) \in Task /\ removeOrder(c).id = c
      /\ saveOrder(c, o) \in Task /\ saveOrder(c, o).id = c
  BY <1>0, <1>2, <1>4, TaskType DEF TypeOK, removeOrder, saveOrder
<1> DEFINE q == Append(dbQueue, removeOrder(c))
<1>6. q \in Seq(Task) /\ dbQueue' = Append(q, saveOrder(c, o))
  <2> DEFINE x == removeOrder(c)
             y == saveOrder(c, o)
  <2>1. <<x>> \in Seq(Task) /\ <<y>> \in Seq(Task)
    BY <1>5
  <2>2. <<x>> \o <<y>> = <<x, y>>
    BY <1>5, <2>1, AppendOne, TwoTasks
  <2>3. q \in Seq(Task) /\ q = dbQueue \o <<x>>
    BY <1>5, AppendOne, AppendProperties
  <2>4. Append(q, y) = q \o <<y>>
    BY <1>5, <2>3, AppendOne
  <2> HIDE DEF q
  <2>5. (dbQueue \o <<x>>) \o <<y>> = dbQueue \o (<<x>> \o <<y>>)
    BY <1>5, <2>1, TasksAssociative
  <2>6. QED
    BY <1>1, <2>2, <2>3, <2>4, <2>5
<1>7. SameTerms(o, o) /\ NotAhead(o, o)
  <2>1. o.rem \in Nat
    BY <1>4 DEF Order
  <2>2. QED
    BY <1>4, <2>1 DEF SameTerms, NotAhead
<1>8. ASSUME NEW id \in OrderId
      PROVE  RowOK(dbQueue', dbOrders'[id], orders'[id], worker', id)
  <2>1. RowOK(dbQueue, dbOrders[id], orders[id], worker, id)
    BY RowsIff
  <2>2. CASE id = c
    <3>1. orders'[id] = o /\ o # NoOrder
      BY <1>0, <1>1, <1>2, <1>4, <2>2, OrdersAssumption DEF TypeOK
    <3>2. NotStored(q, dbOrders[id], id)
      BY <1>2, <1>5, <2>2, AppendRemove
    <3> HIDE DEF q
    <3>3. /\ Stored(dbQueue', dbOrders[id], id)
          /\ Agrees(dbQueue', dbOrders[id], o, id)
      BY <1>2, <1>4, <1>6, <1>7, <2>2, <3>2, AppendSave
    <3>4. QED
      BY <1>1, <1>4, <2>2, <3>1, <3>3 DEF RowOK
  <2>3. CASE id # c
    <3>1. orders'[id] = orders[id]
      BY <1>0, <1>1, <2>3 DEF TypeOK
    <3>2. RowOK(q, dbOrders[id], orders[id], worker, id)
      BY <1>5, <2>1, <2>3, RowOther
    <3> HIDE DEF q
    <3>3. RowOK(dbQueue', dbOrders[id], orders[id], worker, id)
      BY <1>5, <1>6, <2>3, <3>2, RowOther
    <3>4. orders[id] # NoOrder => orders[id].type = "Limit"
      BY <1>0, <1>1, IdleLimit DEF Live
    <3>5. QED
      BY <1>1, <3>1, <3>3, <3>4 DEF RowOK
  <2>4. QED
    BY <2>2, <2>3
<1>9. QED
  BY <1>8, RowsIffNext

(* The database worker runs a task: the row changes the way the queue said  *)
(* it would.                                                                *)
LEMMA RowsRun ==
  ASSUME IndInv, RowsInv, DbStep
  PROVE  RowsInv'
<1>0. TypeOK
  BY DEF IndInv
<1> DEFINE h == Head(dbQueue)
<1>1. dbQueue # << >> /\ dbQueue' = Tail(dbQueue) /\ UNCHANGED <<orders, worker>>
  BY DEF DbStep, RunOrderTask, RunTradeTask, workerVars
<1>2. dbQueue \in Seq(Task) /\ h \in Task
  BY <1>0, <1>1, HeadTailProperties DEF TypeOK
<1>3. ASSUME NEW id \in OrderId
      PROVE  RowOK(dbQueue', dbOrders'[id], orders'[id], worker', id)
  <2> DEFINE new == IF h.op # "trade" /\ h.id = id THEN OrderRow(dbOrders[id], h)
                    ELSE dbOrders[id]
  <2>1. dbOrders'[id] = new
    BY <1>0 DEF DbStep, RunOrderTask, RunTradeTask, TypeOK
  <2>2. dbOrders[id] \in Order \cup {NoOrder}
    BY <1>0 DEF TypeOK
  <2>3. /\ NotStored(dbQueue, dbOrders[id], id) => NotStored(Tail(dbQueue), new, id)
        /\ Stored(dbQueue, dbOrders[id], id) => Stored(Tail(dbQueue), new, id)
        /\ Agrees(dbQueue, dbOrders[id], orders[id], id) =>
             Agrees(Tail(dbQueue), new, orders[id], id)
    BY <1>1, <1>2, <2>2, RunFirst
  <2> HIDE DEF new
  <2>4. RowOK(dbQueue, dbOrders[id], orders[id], worker, id)
    BY RowsIff
  <2>5. QED
    BY <1>1, <2>1, <2>3, <2>4 DEF RowOK
<1>4. QED
  BY <1>3, RowsIffNext

LEMMA RowsStep ==
  ASSUME IndInv, IndInv', RowsInv, [Next]_vars
  PROVE  RowsInv'
<1>0. TypeOK /\ WorkerInv
  BY DEF IndInv
<1>1. CASE SubmitNew \/ SubmitAmend \/ FetchBatch \/ RejectNew \/ RejectUnknown
           \/ RejectCancel \/ UNCHANGED vars
  <2>1. UNCHANGED <<orders, worker, dbQueue, dbOrders>>
    BY <1>1 DEF SubmitNew, SubmitAmend, FetchBatch, RejectNew, RejectUnknown,
                RejectCancel, workerVars, dbVars, vars
  <2>2. QED
    BY <2>1, RowsSame
<1>2. CASE CancelResting
  <2>1. /\ batch # << >> /\ worker' = worker
        /\ orders' = [orders EXCEPT ![Cmd.id] = NoOrder]
        /\ dbQueue' = dbQueue \o <<removeOrder(Cmd.id)>> /\ dbOrders' = dbOrders
    BY <1>2 DEF CancelResting, Take, Persist
  <2>2. Cmd.id \in OrderId
    BY <1>0, <2>1, CmdType
  <2>3. QED
    BY <1>0, <2>1, <2>2, RowsRemove
<1>3. CASE RemoveIncoming
  <2>1. /\ worker.pc = "settle"
        /\ orders' = [orders EXCEPT ![worker.id] = NoOrder]
        /\ dbQueue' = dbQueue \o <<removeOrder(worker.id)>> /\ dbOrders' = dbOrders
    BY <1>3 DEF RemoveIncoming, Settled, Persist
  <2>2. worker.id \in OrderId
    BY <1>0, <2>1 DEF WorkerInv
  <2>3. \A id \in OrderId : Live(id) /\ orders[id].type = "Market" => worker.id = id
    BY DEF RowsInv
  <2>4. QED
    BY <1>0, <2>1, <2>2, <2>3, RowsRemove
<1>4. CASE SkipTrade
  <2> DEFINE t == Head(worker.trades)
  <2>1. /\ worker.trades # << >> /\ worker' = [worker EXCEPT !.trades = Tail(@)]
        /\ dbQueue' = dbQueue \o PostTrade(t)
        /\ UNCHANGED <<orders, dbOrders>>
    BY <1>4 DEF SkipTrade, Persist
  <2>2. /\ worker'.id = worker.id /\ worker'.kind = worker.kind
        /\ worker'.pc = worker.pc /\ t \in Trade
    BY <1>0, <2>1, TradeTaken
  <2>3. dbQueue \in Seq(Task) /\ addTrade(t) \in Task /\ addTrade(t).op = "trade"
    BY <1>0, <2>2 DEF TypeOK, addTrade, Task
  <2> HIDE DEF t
  <2>4. dbQueue' = dbQueue \/ dbQueue' = Append(dbQueue, addTrade(t))
    <3>1. PostTrade(t) = << >> \/ PostTrade(t) = <<addTrade(t)>>
      BY DEF PostTrade
    <3>2. QED
      BY <2>1, <2>3, <3>1, AppendOne, ConcatEmptySeq
  <2>5. ASSUME NEW id \in OrderId
        PROVE  RowOK(dbQueue', dbOrders'[id], orders'[id], worker', id)
    <3>1. RowOK(dbQueue, dbOrders[id], orders[id], worker, id)
      BY RowsIff
    <3>2. RowOK(dbQueue', dbOrders[id], orders[id], worker, id)
      BY <2>3, <2>4, <3>1, RowOther
    <3>3. QED
      BY <2>1, <2>2, <3>2 DEF RowOK
  <2>6. QED
    BY <2>5, RowsIffNext
<1>5. CASE RestIncoming \/ IncomingDone
  <2>1. UNCHANGED <<orders, dbQueue, dbOrders>>
    BY <1>5 DEF RestIncoming, IncomingDone, dbVars
  <2>2. ASSUME NEW id \in OrderId, Live(id) PROVE orders[id].type # "Market"
    <3>1. SUFFICES ASSUME orders[id].type = "Market" PROVE FALSE
      OBVIOUS
    <3>2. worker.id = id /\ worker.kind = "New"
      BY <2>2, <3>1 DEF RowsInv
    <3>3. MustRemove /\ ~MayRest
      BY <2>2, <3>1, <3>2 DEF MustRemove, MayRest, Incoming
    <3>4. QED
      BY <1>5, <3>3 DEF RestIncoming, IncomingDone
  <2>3. ASSUME NEW id \in OrderId
        PROVE  RowOK(dbQueue', dbOrders'[id], orders'[id], worker', id)
    <3>1. RowOK(dbQueue, dbOrders[id], orders[id], worker, id)
      BY RowsIff
    <3>2. QED
      BY <2>1, <2>2, <3>1 DEF RowOK, Live
  <2>4. QED
    BY <2>3, RowsIffNext
<1>6. QED
  BY <1>1, <1>2, <1>3, <1>4, <1>5, RowsAccept, RowsModify, RowsFill, RowsEndMatch,
     RowsSettle, RowsRun
  DEF Next, WorkerStep

(* Whatever the database worker has still to do, the tasks on their way and *)
(* the rows already written decide one row for every order the OrderManager *)
(* holds, with the order's terms and never ahead of it, and none for any    *)
(* other id.                                                                *)
THEOREM RowsTracked == Spec => []RowsInv
<1>1. Init => RowsInv
  <2> SUFFICES ASSUME Init, NEW id \in OrderId
               PROVE  orders[id] = NoOrder /\ NotStored(dbQueue, dbOrders[id], id)
    BY DEF RowsInv, Live
  <2>1. dbQueue = << >> /\ dbOrders[id] = NoOrder /\ orders[id] = NoOrder
    BY DEF Init
  <2>2. QED
    BY <2>1 DEF NotStored, RowStays
<1>2. IndInv /\ RowsInv /\ [Next]_vars => RowsInv'
  BY IndStep, RowsStep
<1>3. QED
  BY <1>1, <1>2, Safety, PTL DEF Spec

(* Once the database worker has caught up, the orders table has a row for   *)
(* exactly the orders the OrderManager holds, and a resting order's row     *)
(* agrees with it in everything but its progress: INSERTs, UPDATEs and      *)
(* DELETEs of one order are never overtaken by one another, whatever the    *)
(* two threads' interleaving.                                               *)
THEOREM RowsManaged == Spec => []RowsAreManaged
<1>1. IndInv /\ RowsInv => RowsAreManaged
  <2> SUFFICES ASSUME IndInv, RowsInv, worker.pc = "idle", dbQueue = << >>,
                      NEW id \in OrderId
               PROVE  /\ dbOrders[id] # NoOrder <=> Live(id)
                      /\ Resting(book, id) =>
                           /\ dbOrders[id].status \in {"New", "PartiallyFilled"}
                           /\ dbOrders[id].rem >= orders[id].rem
                           /\ \A f \in {"owner", "side", "type", "price", "orig"} :
                                dbOrders[id][f] = orders[id][f]
    BY DEF RowsAreManaged, Drained, Idle
  <2>1. DOMAIN dbQueue = {} /\ NoRemoveAfter(dbQueue, 0, id)
    BY DEF NoRemoveAfter
  <2>2. dbOrders[id] # NoOrder <=> Live(id)
    BY <2>1 DEF RowsInv, Stored, NotStored, RowStays
  <2>3. ASSUME Resting(book, id)
        PROVE  /\ dbOrders[id].status \in {"New", "PartiallyFilled"}
               /\ dbOrders[id].rem >= orders[id].rem
               /\ \A f \in {"owner", "side", "type", "price", "orig"} :
                    dbOrders[id][f] = orders[id][f]
    <3>1. Live(id)
      BY <2>3, NotLiveNotResting DEF IndInv
    <3>2. orders[id].type = "Limit"
      BY <3>1, IdleLimit DEF IndInv
    <3>3. SameTerms(dbOrders[id], orders[id]) /\ NotAhead(dbOrders[id], orders[id])
      BY <2>1, <2>2, <3>1 DEF RowsInv, Agrees, RowStays
    <3>4. QED
      BY <3>2, <3>3 DEF SameTerms, NotAhead
  <2>4. QED
    BY <2>2, <2>3
<1>2. QED
  BY <1>1, Safety, RowsTracked, PTL
=============================================================================
