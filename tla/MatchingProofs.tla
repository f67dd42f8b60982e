---------------------------- MODULE MatchingProofs ----------------------------
(***************************************************************************)
(* What the matching pass of an order can do, proved with TLAPS for every   *)
(* value of the constants: limits are honoured, and what                    *)
(* RiskManager::preCheck establishes before a new order is matched lasts    *)
(* for the whole pass.                                                      *)
(***************************************************************************)
EXTENDS PartitionProofs

-----------------------------------------------------------------------------
(* The steps of a matching pass.                                            *)

(* The worker is matching after a step that started the pass, made a trade, *)
(* or was another thread's.                                                 *)
LEMMA MatchSteps ==
  ASSUME IndInv, [Next]_vars, worker'.pc = "match"
  PROVE  \/ UNCHANGED <<orders, book, worker>>
         \/ AcceptNew \/ StartModify \/ Fill
<1>0. TypeOK
  BY DEF IndInv
<1>1. CASE EndMatch
  BY <1>0, <1>1 DEF EndMatch, TypeOK, Worker
<1>2. CASE SettleTrade \/ SkipTrade
  BY <1>0, <1>2 DEF SettleTrade, SkipTrade, TypeOK, Worker
<1>3. CASE RestIncoming \/ RemoveIncoming \/ IncomingDone
  BY <1>3 DEF RestIncoming, RemoveIncoming, IncomingDone, IdleState
<1>4. CASE CancelResting
  BY <1>4 DEF CancelResting, Take
<1>5. QED
  BY <1>1, <1>2, <1>3, <1>4
  DEF Next, WorkerStep, DbStep, SubmitNew, SubmitAmend, FetchBatch, RejectNew,
      RejectUnknown, RejectCancel, RunOrderTask, RunTradeTask, workerVars, vars

(* A fill changes the quantity and the status of its two orders only.       *)
LEMMA FillKeepsTerms ==
  ASSUME IndInv, Fill
  PROVE  /\ \A id \in OrderId :
              /\ orders'[id].owner = orders[id].owner
              /\ orders'[id].side = orders[id].side
              /\ orders'[id].type = orders[id].type
              /\ orders'[id].price = orders[id].price
         /\ worker.id \in OrderId /\ worker'.id = worker.id
         /\ worker'.kind = worker.kind /\ worker.pc = "match"
<1>0. TypeOK
  BY DEF IndInv
<1>1. PICK r \in OrderId, q \in Nat, t \in Trade :
        /\ worker.pc = "match" /\ worker.id \in OrderId /\ r # worker.id
        /\ Incoming \in Order /\ orders[r] \in Order
        /\ orders'[worker.id] = FillIncoming(Incoming, q)
        /\ orders'[r] = FillResting(orders[r], q)
        /\ \A id \in OrderId \ {worker.id, r} : orders'[id] = orders[id]
        /\ worker' = [worker EXCEPT !.trades = Append(@, t)]
  BY FillEffect
<1>2. worker'.id = worker.id /\ worker'.kind = worker.kind
  BY <1>0, <1>1, TradeAppended
<1>3. ASSUME NEW id \in OrderId
      PROVE  /\ orders'[id].owner = orders[id].owner
             /\ orders'[id].side = orders[id].side
             /\ orders'[id].type = orders[id].type
             /\ orders'[id].price = orders[id].price
  <2>1. CASE id = worker.id
    BY <1>1, <2>1 DEF FillIncoming, Order, Incoming
  <2>2. CASE id = r
    BY <1>1, <2>2 DEF FillResting, Order
  <2>3. CASE id \notin {worker.id, r}
    BY <1>1, <2>3
  <2>4. QED
    BY <2>1, <2>2, <2>3
<1>4. QED
  BY <1>1, <1>2, <1>3

(* A level that has orders after a fill had orders before it.               *)
LEMMA FillLevels ==
  ASSUME IndInv, IndInv', Shrinks, NEW s \in Side, NEW p \in Levels(book', s)
  PROVE  p \in Levels(book, s)
<1>1. p \in Prices /\ book'[s][p] # << >> /\ book'[s][p] \in Seq(OrderId)
  BY DEF IndInv, TypeOK, Book, Levels
<1>2. 1 \in DOMAIN book'[s][p]
  BY <1>1, EmptySeq, LenProperties
<1>3. \E k \in DOMAIN book[s][p] : TRUE
  BY <1>1, <1>2 DEF Shrinks
<1>4. book[s][p] # << >>
  BY <1>3
<1>5. QED
  BY <1>1, <1>4 DEF Levels

-----------------------------------------------------------------------------
(* Limits.                                                                  *)

LEMMA LimitsStep ==
  ASSUME IndInv, TradesWithinLimits, [Next]_vars
  PROVE  TradesWithinLimits'
<1>0. TypeOK
  BY DEF IndInv
<1> SUFFICES ASSUME worker'.pc = "match" PROVE TradesWithinLimits'
  BY DEF TradesWithinLimits
<1>1. CASE UNCHANGED <<orders, book, worker>>
  BY <1>1 DEF TradesWithinLimits, WithinLimit
<1>2. CASE AcceptNew \/ StartModify
  <2>1. worker'.trades = << >>
    BY <1>2 DEF AcceptNew, StartModify, Matching
  <2>2. QED
    BY <2>1 DEF TradesWithinLimits
<1>3. CASE Fill
  <2>1. PICK p \in Prices, r \in OrderId, q \in Nat, t \in Trade :
          /\ worker.pc = "match" /\ worker.id \in OrderId
          /\ Incoming \in Order /\ orders[r] \in Order
          /\ Crosses(Incoming, p)
          /\ orders[r].side = Opposite(Incoming.side) /\ orders[r].price = p
          /\ q > 0
          /\ t.qty = q /\ t.price = p
          /\ t.buy = IF Incoming.side = "Buy" THEN worker.id ELSE r
          /\ t.sell = IF Incoming.side = "Buy" THEN r ELSE worker.id
          /\ worker' = [worker EXCEPT !.trades = Append(@, t)]
    BY <1>3, FillEffect
  <2>2. /\ Len(worker.trades) \in Nat
        /\ DOMAIN worker.trades = 1..Len(worker.trades)
        /\ DOMAIN worker'.trades = 1..(Len(worker.trades) + 1)
        /\ \A i \in DOMAIN worker.trades : worker'.trades[i] = worker.trades[i]
        /\ worker'.trades[Len(worker.trades) + 1] = t
    BY <1>0, <2>1, TradeAppended
  <2>3. \A id \in OrderId :
          /\ orders'[id].side = orders[id].side
          /\ orders'[id].type = orders[id].type
          /\ orders'[id].price = orders[id].price
    BY <1>3, FillKeepsTerms
  <2>5. WithinLimit(t.buy, p) /\ WithinLimit(t.sell, p)
    <3>1. p \in Int /\ Incoming.price \in Int
      BY <2>1, OrdersAssumption DEF Order
    <3>2. WithinLimit(worker.id, p)
      BY <2>1, <3>1 DEF WithinLimit, Crosses, Incoming
    <3>3. WithinLimit(r, p)
      BY <2>1, <3>1 DEF WithinLimit
    <3>4. QED
      BY <2>1, <3>2, <3>3
  <2>6. t.buy \in OrderId /\ t.sell \in OrderId
    BY <2>1 DEF Trade
  <2>7. ASSUME NEW i \in DOMAIN worker'.trades
        PROVE  (LET u == worker.trades[i]
                IN /\ u.qty > 0
                   /\ WithinLimit(u.buy, u.price) /\ WithinLimit(u.sell, u.price))'
    <3>1. CASE i \in DOMAIN worker.trades
      <4>1. worker.trades[i].buy \in OrderId /\ worker.trades[i].sell \in OrderId
        BY <1>0, <3>1, TradeListed
      <4>2. QED
        BY <2>1, <2>2, <2>3, <3>1, <4>1 DEF TradesWithinLimits, WithinLimit
    <3>2. CASE i \notin DOMAIN worker.trades
      <4>1. worker'.trades[i] = t
        BY <2>2, <3>2
      <4>2. QED
        BY <2>1, <2>3, <2>5, <2>6, <4>1 DEF WithinLimit
    <3>3. QED
      BY <3>1, <3>2
  <2>8. QED
    BY <2>7 DEF TradesWithinLimits
<1>4. QED
  BY <1>1, <1>2, <1>3, MatchSteps

(* No trade of any pass, of new and of modified orders alike, is executed   *)
(* outside the limit of either party, and each moves some quantity.         *)
THEOREM LimitsHonoured == Spec => []TradesWithinLimits
<1>1. Init => TradesWithinLimits
  BY DEF Init, IdleState, TradesWithinLimits
<1>2. IndInv /\ TradesWithinLimits /\ [Next]_vars => TradesWithinLimits'
  BY LimitsStep
<1>3. QED
  BY <1>1, <1>2, Safety, PTL DEF Spec

-----------------------------------------------------------------------------
(* Self trades.                                                             *)

(* No resting order that the new order can reach is its own trader's, from  *)
(* the check to the end of the pass.                                        *)
LEMMA ReachStep ==
  ASSUME IndInv, NoOwnInReach, [Next]_vars
  PROVE  NoOwnInReach'
<1>0. TypeOK /\ PointersLive /\ NewIdsFresh
  BY DEF IndInv
<1>T. IndInv' /\ TypeOK'
  BY IndStep DEF IndInv
<1> SUFFICES ASSUME worker'.pc = "match", worker'.kind = "New"
             PROVE  ~SelfMatch(book', orders', Incoming')
  BY DEF NoOwnInReach
<1>1. CASE UNCHANGED <<orders, book, worker>>
  BY <1>1 DEF NoOwnInReach, Incoming
<1>2. CASE StartModify
  BY <1>2 DEF StartModify, Matching
<1>3. CASE AcceptNew
  <2>1. /\ batch # << >> /\ batch' = Tail(batch) /\ queue' = queue
        /\ Cmd.kind = "New" /\ worker' = Matching("New", Cmd.id)
        /\ preCheck(book, orders, Cmd.order)
        /\ orders' = [orders EXCEPT ![Cmd.id] = Cmd.order] /\ book' = book
    BY <1>3 DEF AcceptNew, Take
  <2>2. Cmd.id \in OrderId /\ Cmd.order \in Order
    BY <1>0, <2>1, CmdType
  <2>3. 1 \in DOMAIN Pending /\ Pending[1] = Cmd
    BY <1>0, <2>1, PendingTake
  <2>4. ~Live(Cmd.id)
    BY <1>0, <2>1, <2>3 DEF NewIdsFresh
  <2>5. Incoming' = Cmd.order
    BY <1>0, <2>1, <2>2 DEF Incoming, Matching, TypeOK
  <2>6. Opposite(Cmd.order.side) \in Side
    BY DEF Opposite, Side
  <2>7. ASSUME NEW p \in Prices, NEW i \in DOMAIN book[Opposite(Cmd.order.side)][p]
        PROVE  LET id == book[Opposite(Cmd.order.side)][p][i]
               IN orders'[id] = orders[id]
    <3> DEFINE id == book[Opposite(Cmd.order.side)][p][i]
    <3>1. Live(id)
      BY <1>0, <2>6 DEF PointersLive
    <3>2. id # Cmd.id
      BY <2>4, <3>1
    <3>3. QED
      BY <2>1, <3>2
  <2>8. ~SelfMatch(book, orders, Cmd.order)
    BY <2>1 DEF preCheck
  <2>9. \A p \in Levels(book, Opposite(Cmd.order.side)) :
          Crosses(Cmd.order, p) =>
            \A i \in DOMAIN book[Opposite(Cmd.order.side)][p] :
              orders'[book[Opposite(Cmd.order.side)][p][i]].owner # Cmd.order.owner
    BY <2>7, <2>8 DEF SelfMatch, Levels
  <2>10. ~SelfMatch(book, orders', Cmd.order)
    BY <2>9 DEF SelfMatch
  <2>11. QED
    BY <2>1, <2>5, <2>10
<1>4. CASE Fill
  <2>1. Shrinks
    BY <1>4, FillEffect
  <2>2. /\ \A id \in OrderId :
             /\ orders'[id].owner = orders[id].owner
             /\ orders'[id].side = orders[id].side
             /\ orders'[id].type = orders[id].type
             /\ orders'[id].price = orders[id].price
        /\ worker.id \in OrderId /\ worker'.id = worker.id
        /\ worker'.kind = worker.kind /\ worker.pc = "match"
    BY <1>4, FillKeepsTerms
  <2> DEFINE s == Opposite(Incoming.side)
  <2>3. /\ Incoming'.owner = Incoming.owner /\ Incoming'.side = Incoming.side
        /\ Incoming'.type = Incoming.type /\ Incoming'.price = Incoming.price
    BY <2>2 DEF Incoming
  <2>4. s \in Side
    BY DEF Opposite, Side
  <2>5. \A p : Crosses(Incoming', p) <=> Crosses(Incoming, p)
    BY <2>3 DEF Crosses
  <2>6. ~SelfMatch(book, orders, Incoming)
    BY <2>2 DEF NoOwnInReach
  <2>7. ASSUME NEW p \in Levels(book', s), Crosses(Incoming, p),
               NEW i \in DOMAIN book'[s][p]
        PROVE  orders'[book'[s][p][i]].owner # Incoming.owner
    <3>1. p \in Prices
      BY DEF Levels
    <3>2. p \in Levels(book, s)
      BY <1>T, <2>1, <2>4, FillLevels
    <3>3. PICK k \in DOMAIN book[s][p] : book'[s][p][i] = book[s][p][k]
      BY <2>1, <2>4, <3>1 DEF Shrinks
    <3>4. book[s][p][k] \in OrderId
      <4>1. book[s][p] \in Seq(OrderId)
        BY <1>0, <2>4, <3>1 DEF TypeOK, Book
      <4>2. QED
        BY <4>1, LenProperties, ElementOfSeq
    <3>5. orders[book[s][p][k]].owner # Incoming.owner
      BY <2>6, <2>7, <3>2 DEF SelfMatch
    <3>6. QED
      BY <2>2, <3>3, <3>4, <3>5
  <2>8. Opposite(Incoming'.side) = s
    BY <2>3
  <2> HIDE DEF s
  <2>9. QED
    BY <2>3, <2>5, <2>7, <2>8 DEF SelfMatch
<1>5. QED
  BY <1>1, <1>2, <1>3, <1>4, MatchSteps

NewPassNoSelfTrade == worker.kind = "New" => NoSelfTrade

LEMMA SelfTradeStep ==
  ASSUME IndInv, NoOwnInReach, NewPassNoSelfTrade, [Next]_vars
  PROVE  NewPassNoSelfTrade'
<1>0. TypeOK
  BY DEF IndInv
<1> SUFFICES ASSUME worker'.pc = "match", worker'.kind = "New"
             PROVE  NoSelfTrade'
  BY DEF NewPassNoSelfTrade, NoSelfTrade
<1>1. CASE UNCHANGED <<orders, book, worker>>
  BY <1>1 DEF NewPassNoSelfTrade, NoSelfTrade
<1>2. CASE AcceptNew \/ StartModify
  <2>1. worker'.trades = << >>
    BY <1>2 DEF AcceptNew, StartModify, Matching
  <2>2. QED
    BY <2>1 DEF NoSelfTrade
<1>3. CASE Fill
  <2>1. PICK p \in Prices, r \in OrderId, t \in Trade :
          /\ worker.pc = "match" /\ worker.id \in OrderId
          /\ IsBest(book, Opposite(Incoming.side), p) /\ Crosses(Incoming, p)
          /\ 1 \in DOMAIN book[Opposite(Incoming.side)][p]
          /\ book[Opposite(Incoming.side)][p][1] = r
          /\ t.buy = IF Incoming.side = "Buy" THEN worker.id ELSE r
          /\ t.sell = IF Incoming.side = "Buy" THEN r ELSE worker.id
          /\ worker' = [worker EXCEPT !.trades = Append(@, t)]
    BY <1>3, FillEffect
  <2>2. /\ worker'.kind = worker.kind
        /\ Len(worker.trades) \in Nat
        /\ DOMAIN worker.trades = 1..Len(worker.trades)
        /\ DOMAIN worker'.trades = 1..(Len(worker.trades) + 1)
        /\ \A i \in DOMAIN worker.trades : worker'.trades[i] = worker.trades[i]
        /\ worker'.trades[Len(worker.trades) + 1] = t
    BY <1>0, <2>1, TradeAppended
  <2>3. \A id \in OrderId : orders'[id].owner = orders[id].owner
    BY <1>3, FillKeepsTerms
  <2>4. orders[r].owner # Incoming.owner
    BY <2>1, <2>2 DEF NoOwnInReach, SelfMatch, IsBest
  <2>5. orders[t.buy].owner # orders[t.sell].owner
    BY <2>1, <2>4 DEF Incoming
  <2>6. ASSUME NEW i \in DOMAIN worker'.trades
        PROVE  orders'[worker'.trades[i].buy].owner # orders'[worker'.trades[i].sell].owner
    <3>1. CASE i \in DOMAIN worker.trades
      <4>1. worker.trades[i].buy \in OrderId /\ worker.trades[i].sell \in OrderId
        BY <1>0, <3>1, TradeListed
      <4>2. QED
        BY <2>1, <2>2, <2>3, <3>1, <4>1 DEF NewPassNoSelfTrade, NoSelfTrade
    <3>2. CASE i \notin DOMAIN worker.trades
      <4>1. worker'.trades[i] = t
        BY <2>2, <3>2
      <4>2. t.buy \in OrderId /\ t.sell \in OrderId
        BY <2>1 DEF Trade
      <4>3. QED
        BY <2>3, <2>5, <4>1, <4>2
    <3>3. QED
      BY <3>1, <3>2
  <2>7. QED
    BY <2>6 DEF NoSelfTrade
<1>4. QED
  BY <1>1, <1>2, <1>3, MatchSteps

(* The pass of a new order never trades with its own trader, even when      *)
(* modified orders rest in the book: the one check before the pass covers   *)
(* every level the pass may reach.                                          *)
THEOREM NewOrdersNeverSelfTrade == Spec => [](worker.kind = "New" => NoSelfTrade)
<1>1. Init => NoOwnInReach /\ NewPassNoSelfTrade
  BY DEF Init, IdleState, NoOwnInReach, NewPassNoSelfTrade, NoSelfTrade
<1>2. IndInv /\ (NoOwnInReach /\ NewPassNoSelfTrade) /\ [Next]_vars
        => (NoOwnInReach /\ NewPassNoSelfTrade)'
  BY ReachStep, SelfTradeStep
<1>3. QED
  BY <1>1, <1>2, Safety, PTL DEF Spec, NewPassNoSelfTrade

-----------------------------------------------------------------------------
(* Without modify commands.                                                 *)

(* Where clients send no modify command, none is ever handled.              *)
LEMMA NoModifiesStep ==
  ASSUME "Modify" \notin AmendKinds, IndInv, NoModifies, [Next]_vars
  PROVE  NoModifies'
<1>0. TypeOK
  BY DEF IndInv
<1>1. CASE UNCHANGED <<queue, batch, worker>>
  BY <1>1 DEF NoModifies, Pending
<1>2. CASE SubmitNew \/ SubmitAmend
  <2>1. PICK c : Enqueue(c) /\ c \in Command /\ c.kind # "Modify"
    <3>1. CASE SubmitNew
      <4>1. PICK o \in ClientOrders :
              Enqueue([kind |-> "New", id |-> orderId + 1, order |-> o])
        BY <3>1 DEF SubmitNew
      <4>2. orderId + 1 \in OrderId
        BY <1>0, <3>1, OrdersAssumption DEF SubmitNew, TypeOK, OrderId
      <4>3. [kind |-> "New", id |-> orderId + 1, order |-> o] \in Command
        BY <4>2, PartitionAssumption DEF Command
      <4>4. QED
        BY <4>1, <4>3
    <3>2. CASE SubmitAmend
      <4>1. PICK c \in [kind : AmendKinds \cap {"Cancel"}, id : 1..orderId]
                        \cup [kind : AmendKinds \cap {"Modify"}, id : 1..orderId,
                              price : Prices, qty : Quantities] : Enqueue(c)
        BY <3>2 DEF SubmitAmend
      <4>2. c \in [kind : {"Cancel"}, id : 1..orderId]
        BY <4>1
      <4>3. 1..orderId \subseteq OrderId
        BY <1>0, OrdersAssumption DEF TypeOK, OrderId
      <4>4. c \in Command /\ c.kind # "Modify"
        BY <4>2, <4>3 DEF Command
      <4>5. QED
        BY <4>1, <4>4
    <3>3. QED
      BY <1>2, <3>1, <3>2
  <2>2. batch' = batch /\ worker' = worker
    BY <1>2 DEF SubmitNew, SubmitAmend, workerVars
  <2>3. \/ Pending' = Pending
        \/ /\ DOMAIN Pending' = 1..(Len(Pending) + 1)
           /\ \A i \in 1..Len(Pending) : Pending'[i] = Pending[i]
           /\ Pending'[Len(Pending) + 1] = c
    BY <1>0, <2>1, <2>2, PendingEnqueue
  <2>4. DOMAIN Pending = 1..Len(Pending) /\ Len(Pending) \in Nat
    BY <1>0, PendingType
  <2>5. QED
    BY <2>1, <2>2, <2>3, <2>4 DEF NoModifies
<1>3. CASE FetchBatch
  BY <1>0, <1>3, PendingFetch DEF NoModifies, FetchBatch
<1>4. ASSUME batch # << >>, batch' = Tail(batch), queue' = queue,
             worker'.kind = "New"
      PROVE  NoModifies'
  <2>1. /\ DOMAIN Pending' = 1..(Len(Pending) - 1)
        /\ \A i \in 1..(Len(Pending) - 1) : Pending'[i] = Pending[i + 1]
    BY <1>0, <1>4, PendingTake
  <2>2. DOMAIN Pending = 1..Len(Pending) /\ Len(Pending) \in Nat
    BY <1>0, PendingType
  <2>3. \A i \in 1..(Len(Pending) - 1) : i + 1 \in DOMAIN Pending
    BY <2>2
  <2>4. QED
    BY <1>4, <2>1, <2>3 DEF NoModifies
<1>5. CASE RejectNew \/ AcceptNew \/ RejectUnknown \/ CancelResting \/ RejectCancel
  <2>1. /\ batch # << >> /\ batch' = Tail(batch) /\ queue' = queue
        /\ worker'.kind = "New"
    BY <1>5 DEF RejectNew, AcceptNew, RejectUnknown, CancelResting, RejectCancel,
                Take, Matching, NoModifies
  <2>2. QED
    BY <1>4, <2>1
<1>6. CASE StartModify
  <2>1. /\ batch # << >> /\ batch' = Tail(batch) /\ queue' = queue
        /\ Cmd.kind = "Modify"
    BY <1>6 DEF StartModify, Take
  <2>2. 1 \in DOMAIN Pending /\ Pending[1] = Cmd
    BY <1>0, <2>1, PendingTake
  <2>3. QED
    BY <2>1, <2>2 DEF NoModifies
<1>7. CASE Fill \/ EndMatch \/ SettleTrade \/ SkipTrade
             \/ RestIncoming \/ RemoveIncoming \/ IncomingDone
  <2>1. UNCHANGED <<queue, batch>> /\ worker'.kind \in {worker.kind, "New"}
    <3>1. CASE Fill
      BY <3>1, FillEffect, FillKeepsTerms
    <3>2. CASE EndMatch \/ SettleTrade \/ SkipTrade
      BY <1>0, <3>2 DEF EndMatch, SettleTrade, SkipTrade, TypeOK, Worker
    <3>3. CASE RestIncoming \/ RemoveIncoming \/ IncomingDone
      BY <3>3 DEF RestIncoming, RemoveIncoming, IncomingDone, IdleState
    <3>4. QED
      BY <1>7, <3>1, <3>2, <3>3
  <2>2. QED
    BY <2>1 DEF NoModifies, Pending
<1>8. QED
  BY <1>1, <1>2, <1>3, <1>5, <1>6, <1>7
  DEF Next, WorkerStep, DbStep, RunOrderTask, RunTradeTask, workerVars, vars

(* New limit orders have a positive price, or preCheck refuses them; so     *)
(* without modifies every price in the book is positive.                    *)
LEMMA PositiveStep ==
  ASSUME IndInv, NoModifies, PositivePrices, [Next]_vars
  PROVE  PositivePrices'
<1>0. TypeOK /\ RestsOnce /\ WorkerInv
  BY DEF IndInv
<1>T. IndInv' /\ TypeOK'
  BY IndStep DEF IndInv
<1>1. CASE UNCHANGED <<orders, book, worker>>
  BY <1>1 DEF PositivePrices, Live, Incoming
<1>2. ASSUME Shrinks PROVE \A s \in Side : \A p \in Levels(book', s) : p > 0
  BY <1>2, <1>T, FillLevels DEF PositivePrices
<1>3. ASSUME book' = book PROVE \A s \in Side : \A p \in Levels(book', s) : p > 0
  BY <1>3 DEF PositivePrices
<1>4. CASE AcceptNew
  <2>1. /\ batch # << >> /\ Cmd.kind = "New" /\ worker' = Matching("New", Cmd.id)
        /\ preCheck(book, orders, Cmd.order)
        /\ orders' = [orders EXCEPT ![Cmd.id] = Cmd.order] /\ book' = book
    BY <1>4 DEF AcceptNew, Take
  <2>2. Cmd.id \in OrderId
    BY <1>0, <2>1, CmdType
  <2>3. Incoming' = Cmd.order
    BY <1>0, <2>1, <2>2 DEF Incoming, Matching, TypeOK
  <2>4. Cmd.order.type = "Limit" => Cmd.order.price > 0
    BY <2>1 DEF preCheck, ValidTerms
  <2>5. \A s \in Side : \A p \in Levels(book', s) : p > 0
    BY <1>3, <2>1
  <2>6. Incoming'.type = "Limit" => Incoming'.price > 0
    BY <2>3, <2>4
  <2>7. QED
    BY <2>5, <2>6 DEF PositivePrices
<1>5. CASE StartModify
  <2>1. /\ batch # << >> /\ batch' = Tail(batch) /\ queue' = queue
        /\ Cmd.kind = "Modify"
    BY <1>5 DEF StartModify, Take
  <2>2. 1 \in DOMAIN Pending /\ Pending[1] = Cmd
    BY <1>0, <2>1, PendingTake
  <2>3. QED
    BY <2>1, <2>2 DEF NoModifies
<1>6. CASE CancelResting
  <2>1. book' = cancelOrder(book, Cmd.id) /\ worker'.pc = "idle"
    BY <1>6 DEF CancelResting, Take
  <2>2. Shrinks
    BY <1>0, <2>1, CancelBook
  <2>3. QED
    BY <1>2, <2>1, <2>2 DEF PositivePrices
<1>7. CASE Fill
  <2>1. Shrinks
    BY <1>7, FillEffect
  <2>2. /\ \A id \in OrderId :
             /\ orders'[id].type = orders[id].type
             /\ orders'[id].price = orders[id].price
        /\ worker.id \in OrderId /\ worker'.id = worker.id /\ worker.pc = "match"
    BY <1>7, FillKeepsTerms
  <2>3. Live(worker.id)
    BY <1>0, <2>2 DEF WorkerInv
  <2>4. QED
    BY <1>2, <2>1, <2>2, <2>3 DEF PositivePrices, Incoming
<1>8. CASE EndMatch
  <2>1. worker.id \in OrderId /\ Live(worker.id) /\ worker.pc = "match"
    BY <1>0, <1>8 DEF EndMatch, WorkerInv
  <2>2. /\ orders' = [orders EXCEPT ![worker.id].status = FinalStatus(Incoming)]
        /\ worker'.id = worker.id /\ book' = book
    BY <1>0, <1>8 DEF EndMatch, TypeOK, Worker
  <2>3. Incoming'.type = Incoming.type /\ Incoming'.price = Incoming.price
    BY <1>0, <2>1, <2>2 DEF Incoming, TypeOK, Live, Order
  <2>4. QED
    BY <1>3, <2>1, <2>2, <2>3 DEF PositivePrices
<1>9. CASE SettleTrade \/ SkipTrade
  <2>1. /\ worker'.id = worker.id /\ worker.pc = "settle" /\ book' = book
        /\ worker.id \in OrderId
        /\ \A id \in OrderId : orders'[id] = orders[id] \/ orders'[id] = NoOrder
    BY <1>0, <1>9 DEF SettleTrade, SkipTrade, TypeOK, Worker, WorkerInv
  <2>2. QED
    BY <1>3, <2>1 DEF PositivePrices, Live, Incoming
<1>10. CASE RemoveIncoming \/ IncomingDone
  BY <1>3, <1>10 DEF RemoveIncoming, IncomingDone, IdleState, PositivePrices
<1>11. CASE RestIncoming
  <2>1. /\ Live(worker.id) /\ worker.pc = "settle" /\ Incoming.type = "Limit"
        /\ worker'.pc = "idle"
        /\ book' = [book EXCEPT ![Incoming.side][Incoming.price] = Append(@, worker.id)]
    BY <1>11 DEF RestIncoming, Settled, MayRest, NoModifies, IdleState, insertOrder
  <2>2. Incoming.price > 0
    BY <2>1 DEF PositivePrices
  <2>3. ASSUME NEW s \in Side, NEW p \in Levels(book', s) PROVE p > 0
    <3>1. CASE p = Incoming.price
      BY <2>2, <3>1
    <3>2. CASE p # Incoming.price
      <4>1. book'[s][p] = book[s][p]
        BY <1>0, <2>1, <2>3, <3>2 DEF TypeOK, Book, Levels
      <4>2. QED
        BY <4>1 DEF PositivePrices, Levels
    <3>3. QED
      BY <3>1, <3>2
  <2>4. QED
    BY <2>1, <2>3 DEF PositivePrices
<1>12. QED
  BY <1>1, <1>4, <1>5, <1>6, <1>7, <1>8, <1>9, <1>10, <1>11
  DEF Next, WorkerStep, DbStep, SubmitNew, SubmitAmend, FetchBatch, RejectNew,
      RejectUnknown, RejectCancel, RunOrderTask, RunTradeTask, workerVars, vars

-----------------------------------------------------------------------------
(* The price collar.                                                        *)

(* The collar of the best price at the check bounds the whole sweep.        *)
LEMMA CollarStep ==
  ASSUME IndInv, PositivePrices, InCollar, [Next]_vars
  PROVE  InCollar'
<1>0. TypeOK
  BY DEF IndInv
<1>T. IndInv'
  BY IndStep
<1> SUFFICES ASSUME worker'.pc = "match", worker'.kind = "New",
                    Incoming'.type = "Limit"
             PROVE  IF worker'.trades = << >> THEN ~FatFinger(book', Incoming')
                                              ELSE Sweep(worker.trades[1].price)'
  BY DEF InCollar
<1>1. CASE UNCHANGED <<orders, book, worker>>
  BY <1>1 DEF InCollar, Incoming, Sweep
<1>2. CASE StartModify
  BY <1>2 DEF StartModify, Matching
<1>3. CASE AcceptNew
  <2>1. /\ batch # << >> /\ Cmd.kind = "New" /\ worker' = Matching("New", Cmd.id)
        /\ preCheck(book, orders, Cmd.order)
        /\ orders' = [orders EXCEPT ![Cmd.id] = Cmd.order] /\ book' = book
    BY <1>3 DEF AcceptNew, Take
  <2>2. Cmd.id \in OrderId
    BY <1>0, <2>1, CmdType
  <2>3. Incoming' = Cmd.order /\ worker'.trades = << >>
    BY <1>0, <2>1, <2>2 DEF Incoming, Matching, TypeOK
  <2>4. ~FatFinger(book, Cmd.order)
    BY <2>1 DEF preCheck
  <2>5. QED
    BY <2>1, <2>3, <2>4
<1>4. CASE Fill
  <2>1. PICK p \in Prices, t \in Trade :
          /\ Incoming \in Order
          /\ IsBest(book, Opposite(Incoming.side), p) /\ Crosses(Incoming, p)
          /\ t.price = p
          /\ worker' = [worker EXCEPT !.trades = Append(@, t)]
          /\ Shrinks
    BY <1>4, FillEffect
  <2>2. /\ Len(worker.trades) \in Nat
        /\ DOMAIN worker.trades = 1..Len(worker.trades)
        /\ DOMAIN worker'.trades = 1..(Len(worker.trades) + 1)
        /\ \A i \in DOMAIN worker.trades : worker'.trades[i] = worker.trades[i]
        /\ worker'.trades[Len(worker.trades) + 1] = t
    BY <1>0, <2>1, TradeAppended
  <2>3. /\ \A id \in OrderId :
             /\ orders'[id].side = orders[id].side
             /\ orders'[id].type = orders[id].type
             /\ orders'[id].price = orders[id].price
        /\ worker.id \in OrderId /\ worker'.id = worker.id
        /\ worker'.kind = worker.kind /\ worker.pc = "match"
    BY <1>4, FillKeepsTerms
  <2>4. /\ Incoming'.side = Incoming.side
        /\ Incoming'.type = Incoming.type /\ Incoming'.price = Incoming.price
    BY <2>3 DEF Incoming
  <2> DEFINE s == Opposite(Incoming.side)
             top == worker'.trades[1].price
             dev == IF Incoming.price > top THEN Incoming.price - top
                                            ELSE top - Incoming.price
  <2>5. s \in Side /\ p \in Levels(book, s)
    BY <2>1 DEF Opposite, Side, IsBest
  <2>6. \A q \in Levels(book', s) : q \in Levels(book, s)
    BY <1>T, <2>1, <2>5, FillLevels
  <2>7. p > 0 /\ p \in Int
    BY <2>5, OrdersAssumption DEF PositivePrices
  <2>8. worker'.trades # << >> /\ 1 \in DOMAIN worker'.trades
    BY <2>2
  <2>9. /\ top > 0 /\ Crosses(Incoming, top) /\ 10 * dev <= top
        /\ \A q \in Levels(book, s) : ~Better(s, q, top)
        /\ \A i \in DOMAIN worker.trades :
             /\ Crosses(Incoming, worker.trades[i].price)
             /\ ~Better(s, worker.trades[i].price, top)
    <3>1. CASE worker.trades = << >>
      <4>1. top = p /\ DOMAIN worker.trades = {}
        BY <2>1, <2>2, <3>1
      <4>2. ~FatFinger(book, Incoming)
        BY <2>3, <2>4, <3>1 DEF InCollar
      <4>3. ~(10 * (IF Incoming.price > p THEN Incoming.price - p ELSE p - Incoming.price) > p)
        BY <2>1, <2>4, <2>7, <4>2 DEF FatFinger
      <4>4. Incoming.price \in Int
        BY <2>1, OrdersAssumption DEF Order
      <4>5. 10 * dev <= top
        BY <2>7, <4>1, <4>3, <4>4
      <4>6. \A q \in Levels(book, s) : ~Better(s, q, top)
        BY <2>1, <4>1 DEF IsBest
      <4>7. QED
        BY <2>1, <2>7, <4>1, <4>5, <4>6
    <3>2. CASE worker.trades # << >>
      <4>1. worker.trades \in Seq(Trade)
        BY <1>0 DEF TypeOK, Worker
      <4>2. 1 \in DOMAIN worker.trades
        BY <3>2, <4>1, EmptySeq, LenProperties
      <4>3. top = worker.trades[1].price
        BY <2>2, <4>2
      <4>4. Sweep(top)
        BY <2>3, <2>4, <3>2, <4>3 DEF InCollar
      <4> HIDE DEF top
      <4>5. QED
        BY <4>4 DEF Sweep
    <3>3. QED
      BY <3>1, <3>2
  <2>10. ASSUME NEW i \in DOMAIN worker'.trades
         PROVE  /\ Crosses(Incoming, worker'.trades[i].price)
                /\ ~Better(s, worker'.trades[i].price, top)
    <3>1. CASE i \in DOMAIN worker.trades
      BY <2>2, <2>9, <3>1
    <3>2. CASE i \notin DOMAIN worker.trades
      <4>1. worker'.trades[i].price = p
        BY <2>1, <2>2, <3>2
      <4>2. QED
        BY <2>1, <2>5, <2>9, <4>1
    <3>3. QED
      BY <3>1, <3>2
  <2>11. Opposite(Incoming'.side) = s
    BY <2>4
  <2>12. \A x : Crosses(Incoming', x) <=> Crosses(Incoming, x)
    BY <2>4 DEF Crosses
  <2> HIDE DEF s
  <2>13. Sweep(worker.trades[1].price)'
    BY <2>4, <2>6, <2>9, <2>10, <2>11, <2>12 DEF Sweep
  <2>14. QED
    BY <2>8, <2>13
<1>5. QED
  BY <1>1, <1>2, <1>3, <1>4, MatchSteps

LEMMA CollarFollows ==
  ASSUME IndInv, InCollar
  PROVE  CollarHolds
<1> SUFFICES ASSUME worker.pc = "match", worker.kind = "New",
                    Incoming.type = "Limit", NEW i \in DOMAIN worker.trades
             PROVE  LET top == worker.trades[1].price
                        p   == worker.trades[i].price
                    IN 10 * (IF p > top THEN p - top ELSE top - p) <= top
  BY DEF CollarHolds
<1> DEFINE top == worker.trades[1].price
           p   == worker.trades[i].price
<1>0. TypeOK /\ WorkerInv
  BY DEF IndInv
<1>1. worker.trades # << >>
  OBVIOUS
<1>2. 1 \in DOMAIN worker.trades
  <2>1. worker.trades \in Seq(Trade)
    BY <1>0 DEF TypeOK, Worker
  <2>2. QED
    BY <1>1, <2>1, EmptySeq, LenProperties
<1>3. top \in Int /\ p \in Int
  BY <1>0, <1>2, TradeListed, OrdersAssumption DEF Trade
<1>4. Incoming \in Order
  BY <1>0 DEF WorkerInv, TypeOK, Live, Incoming
<1>5. Incoming.price \in Int /\ Incoming.side \in Side
  BY <1>4, OrdersAssumption DEF Order
<1>6. Sweep(top)
  BY <1>1 DEF InCollar
<1>7. /\ top > 0 /\ Crosses(Incoming, p)
      /\ 10 * (IF Incoming.price > top THEN Incoming.price - top
                                       ELSE top - Incoming.price) <= top
      /\ ~Better(Opposite(Incoming.side), p, top)
      /\ Crosses(Incoming, top)
  BY <1>6 DEF Sweep
<1> HIDE DEF top, p
<1>8. CASE Incoming.side = "Buy"
  <2>1. Incoming.price >= p /\ p >= top
    BY <1>3, <1>5, <1>7, <1>8 DEF Crosses, Better, Opposite
  <2>2. QED
    BY <1>3, <1>5, <1>7, <2>1 DEF top, p
<1>9. CASE Incoming.side = "Sell"
  <2>1. Incoming.price <= p /\ p <= top
    BY <1>3, <1>5, <1>7, <1>9 DEF Crosses, Better, Opposite
  <2>2. QED
    BY <1>3, <1>5, <1>7, <2>1 DEF top, p
<1>10. QED
  BY <1>5, <1>8, <1>9 DEF Side

(* A new limit order never trades further than 10% from the price at the    *)
(* top of the book when it was checked, however many levels it sweeps: as   *)
(* long as no zero or negative price can enter the book, which only a       *)
(* modify command (it is not risk-checked) could bring there.               *)
THEOREM CollarKept ==
  ASSUME "Modify" \notin AmendKinds \/ \A p \in Prices : p > 0
  PROVE  Spec => []CollarHolds
<1> DEFINE Inv == (("Modify" \notin AmendKinds => NoModifies) /\ PositivePrices) /\ InCollar
<1>1. Init => Inv
  <2> SUFFICES ASSUME Init PROVE Inv
    OBVIOUS
  <2>1. IndInv
    BY InitInv
  <2>2. NoModifies
    <3>1. Len(Pending) = 0
      BY EmptySeq, ConcatProperties DEF Init, Pending
    <3>2. DOMAIN Pending = {}
      BY <2>1, <3>1, PendingType DEF IndInv
    <3>3. QED
      BY <3>2 DEF NoModifies, Init, IdleState
  <2>3. PositivePrices /\ InCollar
    BY DEF Init, EmptyBook, Levels, PositivePrices, InCollar, IdleState
  <2>4. QED
    BY <2>2, <2>3
<1>2. IndInv /\ Inv /\ [Next]_vars => Inv'
  <2> SUFFICES ASSUME IndInv, Inv, [Next]_vars PROVE Inv'
    OBVIOUS
  <2>1. InCollar'
    BY CollarStep
  <2>2. "Modify" \notin AmendKinds => NoModifies'
    BY NoModifiesStep
  <2>3. PositivePrices'
    <3>1. CASE "Modify" \notin AmendKinds
      BY <3>1, PositiveStep
    <3>2. CASE \A p \in Prices : p > 0
      <4>1. IndInv'
        BY IndStep
      <4>2. \A s \in Side : \A p \in Levels(book', s) : p > 0
        BY <3>2 DEF Levels
      <4>3. ASSUME worker'.pc # "idle", Live(worker.id)' PROVE Incoming'.price > 0
        <5>1. Incoming' \in Order
          BY <4>1, <4>3 DEF IndInv, TypeOK, WorkerInv, Live, Incoming
        <5>2. QED
          BY <3>2, <5>1 DEF Order
      <4>4. QED
        BY <4>2, <4>3 DEF PositivePrices
    <3>3. QED
      BY <3>1, <3>2
  <2>4. QED
    BY <2>1, <2>2, <2>3
<1>3. IndInv /\ Inv => CollarHolds
  BY CollarFollows
<1> HIDE DEF Inv
<1>4. QED
  BY <1>1, <1>2, <1>3, Safety, PTL DEF Spec

-----------------------------------------------------------------------------
(* Price-time priority.                                                     *)

(* The entries of a level that a step leaves in it stay in their order.     *)
OrderKept ==
  \A s \in Side, p \in Prices :
    \A i, j \in DOMAIN book'[s][p] : \A m, n \in DOMAIN book[s][p] :
      book'[s][p][i] = book[s][p][m] /\ book'[s][p][j] = book[s][p][n] /\ m < n => i < j

(* An order that rests before and after a step rests at the same level.     *)
LevelsKept ==
  \A id \in OrderId : Resting(book, id) /\ Resting(book', id) =>
    orders'[id].side = orders[id].side /\ orders'[id].price = orders[id].price

LEMMA CancelOrderKept ==
  ASSUME TypeOK, RestsOnce, NEW id, book' = cancelOrder(book, id)
  PROVE  OrderKept
<1>1. ASSUME NEW s \in Side, NEW p \in Prices
      PROVE  \A i, j \in DOMAIN book'[s][p] : \A m, n \in DOMAIN book[s][p] :
               book'[s][p][i] = book[s][p][m] /\ book'[s][p][j] = book[s][p][n] /\ m < n
                 => i < j
  <2>1. book[s][p] \in Seq(OrderId)
    BY DEF TypeOK, Book
  <2>2. \A i, j \in DOMAIN book[s][p] : book[s][p][i] = book[s][p][j] => i = j
    BY DEF RestsOnce
  <2>3. book'[s][p] = RemoveFirst(book[s][p], id)
    BY DEF cancelOrder
  <2>4. QED
    BY <2>1, <2>2, <2>3, RemoveFirstProps
<1>2. QED
  BY <1>1 DEF OrderKept

LEMMA FillOrderKept ==
  ASSUME IndInv, Fill
  PROVE  OrderKept
<1>0. TypeOK /\ PointersLive /\ RestsOnce /\ WorkerInv
  BY DEF IndInv
<1>1. PICK p \in Prices : FillAt(p)
  BY DEF Fill
<1> DEFINE side == Opposite(Incoming.side)
           level == book[side][p]
           o == orders[Head(level)]
           qty == FillQty(Incoming, o)
<1>2. side \in Side /\ level \in Seq(OrderId) /\ level # << >>
  BY <1>0, <1>1, FillFacts DEF FillAt
<1>3. book' = [book EXCEPT ![side][p] = PopFilled(@, o, qty)]
  BY <1>1 DEF FillAt
<1> HIDE DEF side, level, o, qty
<1>4. /\ book[side][p] = level
      /\ book'[side][p] = PopFilled(level, o, qty)
      /\ \A s \in Side, q \in Prices :
           ~(s = side /\ q = p) => book'[s][q] = book[s][q]
  BY <1>0, <1>2, <1>3 DEF TypeOK, Book, level
<1>5. \A s \in Side, q \in Prices :
        \A i, j \in DOMAIN book[s][q] : book[s][q][i] = book[s][q][j] => i = j
  BY <1>0 DEF RestsOnce
<1>6. ASSUME NEW s \in Side, NEW q \in Prices, NEW i \in DOMAIN book'[s][q],
             NEW j \in DOMAIN book'[s][q], NEW m \in DOMAIN book[s][q],
             NEW n \in DOMAIN book[s][q],
             book'[s][q][i] = book[s][q][m], book'[s][q][j] = book[s][q][n], m < n
      PROVE  i < j
  <2>1. CASE book'[s][q] = book[s][q]
    <3>1. i = m /\ j = n
      BY <1>5, <1>6, <2>1
    <3>2. QED
      BY <1>6, <3>1
  <2>2. CASE s = side /\ q = p /\ book'[s][q] = Tail(level)
    <3>1. /\ Len(level) \in Nat /\ DOMAIN level = 1..Len(level)
          /\ DOMAIN Tail(level) = 1..(Len(level) - 1)
          /\ \A k \in 1..(Len(level) - 1) : Tail(level)[k] = level[k + 1]
      BY <1>2, HeadTailProperties, LenProperties
    <3>2. /\ i + 1 \in DOMAIN level /\ book'[s][q][i] = level[i + 1]
          /\ j + 1 \in DOMAIN level /\ book'[s][q][j] = level[j + 1]
      BY <2>2, <3>1
    <3>3. book[s][q] = level
      BY <1>4, <2>2
    <3>4. i + 1 = m /\ j + 1 = n
      BY <1>5, <1>6, <3>2, <3>3
    <3>5. i \in Nat /\ j \in Nat
      BY <2>2, <3>1
    <3>6. QED
      BY <1>6, <3>4, <3>5
  <2>3. QED
    BY <1>4, <2>1, <2>2 DEF PopFilled
<1>7. QED
  BY <1>6 DEF OrderKept

(* Priority between two orders that stay in the book follows.               *)
LEMMA PriorityKept ==
  ASSUME IndInv, IndInv', OrderKept, LevelsKept,
         NEW a \in OrderId, NEW b \in OrderId,
         Ahead(book, a, b), Resting(book', a), Resting(book', b)
  PROVE  Ahead(book', a, b)
<1>0. /\ book \in Book /\ book' \in Book /\ PointersLive /\ PointersLive'
  BY DEF IndInv, TypeOK
<1>1. PICK s \in Side, p \in Prices, q \in Prices :
        \E i \in DOMAIN book[s][p], j \in DOMAIN book[s][q] :
          /\ book[s][p][i] = a /\ book[s][q][j] = b
          /\ Better(s, p, q) \/ (p = q /\ i < j)
  BY DEF Ahead
<1>2. PICK i \in DOMAIN book[s][p], j \in DOMAIN book[s][q] :
          /\ book[s][p][i] = a /\ book[s][q][j] = b
          /\ Better(s, p, q) \/ (p = q /\ i < j)
  BY <1>1
<1>3. PICK s1 \in Side, p1 \in Prices : \E k \in DOMAIN book'[s1][p1] : book'[s1][p1][k] = a
  BY <1>0, RestingIff
<1>4. PICK s2 \in Side, p2 \in Prices : \E k \in DOMAIN book'[s2][p2] : book'[s2][p2][k] = b
  BY <1>0, RestingIff
<1>5. Resting(book, a) /\ Resting(book, b)
  BY <1>0, <1>2, RestingIff
<1>6. /\ orders[a].side = s /\ orders[a].price = p
      /\ orders[b].side = s /\ orders[b].price = q
  BY <1>0, <1>2 DEF PointersLive
<1>7. /\ orders'[a].side = s1 /\ orders'[a].price = p1
      /\ orders'[b].side = s2 /\ orders'[b].price = p2
  BY <1>0, <1>3, <1>4 DEF PointersLive
<1>8. s1 = s /\ p1 = p /\ s2 = s /\ p2 = q
  BY <1>5, <1>6, <1>7 DEF LevelsKept
<1>9. PICK k \in DOMAIN book'[s][p] : book'[s][p][k] = a
  BY <1>3, <1>8
<1>10. PICK l \in DOMAIN book'[s][q] : book'[s][q][l] = b
  BY <1>4, <1>8
<1>11. Better(s, p, q) \/ (p = q /\ k < l)
  BY <1>2, <1>9, <1>10 DEF OrderKept
<1>12. QED
  BY <1>9, <1>10, <1>11 DEF Ahead

(* The order a fill hits has priority over every other.                     *)
LEMMA FillHitsFirst ==
  ASSUME IndInv, Fill, NEW a \in OrderId, NEW b \in OrderId, Ahead(book, a, b)
  PROVE  ~Hit(b)
<1>0. TypeOK /\ PointersLive /\ RestsOnce /\ WorkerInv
  BY DEF IndInv
<1>1. PICK p \in Prices, r \in OrderId, t \in Trade :
        /\ worker.pc = "match" /\ worker.id \in OrderId
        /\ Incoming \in Order
        /\ IsBest(book, Opposite(Incoming.side), p)
        /\ 1 \in DOMAIN book[Opposite(Incoming.side)][p]
        /\ book[Opposite(Incoming.side)][p][1] = r
        /\ Opposite(Incoming.side) \in Side
        /\ t.buy = IF Incoming.side = "Buy" THEN worker.id ELSE r
        /\ t.sell = IF Incoming.side = "Buy" THEN r ELSE worker.id
        /\ worker' = [worker EXCEPT !.trades = Append(@, t)]
  BY FillEffect
<1>2. Last(worker'.trades) = t
  <2>1. worker'.trades = Append(worker.trades, t) /\ worker.trades \in Seq(Trade)
    BY <1>0, <1>1 DEF TypeOK, Worker
  <2>2. /\ Len(Append(worker.trades, t)) = Len(worker.trades) + 1
        /\ Append(worker.trades, t)[Len(worker.trades) + 1] = t
    BY <1>1, <2>1, AppendProperties
  <2>3. QED
    BY <2>1, <2>2 DEF Last
<1>3. SUFFICES ASSUME Hit(b) PROVE FALSE
  OBVIOUS
<1>4. PICK s \in Side, p1 \in Prices, q1 \in Prices :
        \E i \in DOMAIN book[s][p1], j \in DOMAIN book[s][q1] :
          /\ book[s][p1][i] = a /\ book[s][q1][j] = b
          /\ Better(s, p1, q1) \/ (p1 = q1 /\ i < j)
  BY DEF Ahead
<1>5. PICK i \in DOMAIN book[s][p1], j \in DOMAIN book[s][q1] :
        /\ book[s][p1][i] = a /\ book[s][q1][j] = b
        /\ Better(s, p1, q1) \/ (p1 = q1 /\ i < j)
  BY <1>4
<1>6. b # worker.id
  <2>1. Resting(book, b)
    BY <1>0, <1>5, RestingIff DEF TypeOK
  <2>2. QED
    BY <1>0, <1>1, <2>1 DEF WorkerInv
<1>7. b = r
  BY <1>1, <1>2, <1>3, <1>6 DEF Hit
<1>8. s = Opposite(Incoming.side) /\ q1 = p
  BY <1>0, <1>1, <1>5, <1>7 DEF PointersLive
<1>9. j = 1
  BY <1>0, <1>1, <1>5, <1>7, <1>8 DEF RestsOnce
<1>10. CASE Better(s, p1, q1)
  <2>1. p1 \in Levels(book, s)
    BY <1>5 DEF Levels
  <2>2. QED
    BY <1>1, <1>8, <1>10, <2>1 DEF IsBest
<1>11. CASE p1 = q1 /\ i < j
  <2>1. i \in 1..Len(book[s][p1])
    BY <1>0, <1>5, LenProperties DEF TypeOK, Book
  <2>2. QED
    BY <1>9, <1>11, <2>1
<1>12. QED
  BY <1>5, <1>10, <1>11

(* Orders enter the book at the end of their level only.                    *)
LEMMA QueuesBehind ==
  ASSUME IndInv, IndInv', RestIncoming, NEW a \in OrderId, NEW b \in OrderId
  PROVE  /\ OrderKept /\ LevelsKept
         /\ ~Resting(book, a) /\ Resting(book, b) /\ Ahead(book', a, b) =>
              orders'[a].price # orders'[b].price
<1>0. /\ TypeOK /\ TypeOK' /\ PointersLive /\ PointersLive' /\ RestsOnce /\ RestsOnce'
      /\ WorkerInv
  BY DEF IndInv
<1> DEFINE id == worker.id
           o == Incoming
           level == book[o.side][o.price]
<1>1. id \in OrderId /\ o \in Order /\ book' = insertOrder(book, id, o) /\ orders' = orders
  BY <1>0 DEF RestIncoming, Settled, MayRest, Live, WorkerInv, TypeOK, Incoming
<1> HIDE DEF id, o
<1>2. o.side \in Side /\ o.price \in Prices
  BY <1>1 DEF Order
<1>3. /\ level \in Seq(OrderId)
      /\ book'[o.side][o.price] = Append(level, id)
      /\ \A s \in Side, q \in Prices :
           ~(s = o.side /\ q = o.price) => book'[s][q] = book[s][q]
  <2> DEFINE sd == o.side
             pr == o.price
             longer == Append(level, id)
  <2>1. book' = [book EXCEPT ![sd][pr] = longer]
    BY <1>1 DEF insertOrder
  <2>2. book \in Book /\ sd \in Side /\ pr \in Prices
    BY <1>0, <1>2 DEF TypeOK
  <2> HIDE DEF sd, pr, longer
  <2>3. /\ book'[sd][pr] = longer
        /\ \A s \in Side, q \in Prices : ~(s = sd /\ q = pr) => book'[s][q] = book[s][q]
    BY <2>1, <2>2 DEF Book
  <2>4. book[sd][pr] \in Seq(OrderId)
    BY <2>2 DEF Book
  <2>5. QED
    BY <2>3, <2>4 DEF sd, pr, longer
<1> HIDE DEF level
<1>4. /\ Len(level) \in Nat /\ DOMAIN level = 1..Len(level)
      /\ DOMAIN Append(level, id) = 1..(Len(level) + 1)
      /\ \A i \in 1..Len(level) : Append(level, id)[i] = level[i]
      /\ Append(level, id)[Len(level) + 1] = id
  BY <1>1, <1>3, AppendProperties, LenProperties
<1>5. \A s \in Side, p \in Prices : \A m \in DOMAIN book[s][p] :
        m \in DOMAIN book'[s][p] /\ book'[s][p][m] = book[s][p][m]
  <2>1. ASSUME NEW s \in Side, NEW p \in Prices, NEW m \in DOMAIN book[s][p]
        PROVE  m \in DOMAIN book'[s][p] /\ book'[s][p][m] = book[s][p][m]
    <3>1. CASE ~(s = o.side /\ p = o.price)
      BY <1>3, <3>1
    <3>2. CASE s = o.side /\ p = o.price
      <4>1. book[s][p] = level /\ book'[s][p] = Append(level, id)
        BY <1>3, <3>2 DEF level
      <4>2. m \in 1..Len(level) /\ m \in 1..(Len(level) + 1)
        BY <1>4, <4>1
      <4>3. QED
        BY <1>4, <4>1, <4>2
    <3>3. QED
      BY <3>1, <3>2
  <2>2. QED
    BY <2>1
<1>6. OrderKept
  <2>1. ASSUME NEW s \in Side, NEW p \in Prices, NEW i \in DOMAIN book'[s][p],
               NEW j \in DOMAIN book'[s][p], NEW m \in DOMAIN book[s][p],
               NEW n \in DOMAIN book[s][p],
               book'[s][p][i] = book[s][p][m], book'[s][p][j] = book[s][p][n], m < n
        PROVE  i < j
    <3>1. i = m /\ j = n
      BY <1>0, <1>5, <2>1 DEF RestsOnce
    <3>2. QED
      BY <2>1, <3>1
  <2>2. QED
    BY <2>1 DEF OrderKept
<1>7. LevelsKept
  BY <1>1 DEF LevelsKept
<1>8. ASSUME ~Resting(book, a), Resting(book, b), Ahead(book', a, b)
      PROVE  orders'[a].price # orders'[b].price
  <2>1. PICK s \in Side, p \in Prices, q \in Prices :
          \E i \in DOMAIN book'[s][p], j \in DOMAIN book'[s][q] :
            /\ book'[s][p][i] = a /\ book'[s][q][j] = b
            /\ Better(s, p, q) \/ (p = q /\ i < j)
    BY <1>8 DEF Ahead
  <2>2. PICK i \in DOMAIN book'[s][p], j \in DOMAIN book'[s][q] :
            /\ book'[s][p][i] = a /\ book'[s][q][j] = b
            /\ Better(s, p, q) \/ (p = q /\ i < j)
    BY <2>1
  <2>3. orders'[a].price = p /\ orders'[b].price = q
    BY <1>0, <2>2 DEF PointersLive
  <2>4. p \in Int /\ q \in Int
    BY OrdersAssumption
  <2>5. CASE Better(s, p, q)
    BY <2>3, <2>4, <2>5 DEF Better
  <2>6. CASE p = q /\ i < j
    <3>1. i \notin DOMAIN book[s][p]
      <4>1. \A k \in DOMAIN book[s][p] : book[s][p][k] # a
        BY <1>0, <1>8, RestingIff DEF TypeOK
      <4>2. QED
        BY <1>5, <2>2, <4>1
    <3>2. s = o.side /\ p = o.price
      BY <1>3, <3>1
    <3>3. i = Len(level) + 1 /\ j \in 1..(Len(level) + 1)
      <4>1. book[s][p] = level /\ book'[s][p] = Append(level, id)
        BY <1>3, <3>2 DEF level
      <4>2. i \in 1..(Len(level) + 1) /\ j \in 1..(Len(level) + 1)
        BY <1>4, <2>6, <4>1
      <4>3. i \notin 1..Len(level)
        BY <1>4, <3>1, <4>1
      <4>4. QED
        BY <1>4, <4>2, <4>3
    <3>4. QED
      BY <1>4, <2>6, <3>3
  <2>7. QED
    BY <2>2, <2>5, <2>6
<1>9. QED
  BY <1>6, <1>7, <1>8

(* A step that takes entries out of the book, and keeps the rest in order,  *)
(* changes no priority.                                                     *)
LEMMA PriorityShrinks ==
  ASSUME IndInv, IndInv', Shrinks, OrderKept, LevelsKept,
         NEW a \in OrderId, NEW b \in OrderId
  PROVE  /\ Ahead(book, a, b) /\ Resting(book', a) /\ Resting(book', b) =>
              Ahead(book', a, b)
         /\ Ahead(book', a, b) => Resting(book, a)
<1>1. Ahead(book', a, b) => Resting(book', a)
  <2>1. book' \in Book
    BY DEF IndInv, TypeOK
  <2>2. QED
    BY <2>1, RestingIff DEF Ahead
<1>2. QED
  BY <1>1, PriorityKept, ShrinkResting DEF IndInv

LEMMA PriorityStep ==
  ASSUME IndInv, IndInv', [Next]_vars, NEW a \in OrderId, NEW b \in OrderId
  PROVE  /\ Ahead(book, a, b) =>
              /\ ~Hit(b)
              /\ Resting(book', a) /\ Resting(book', b) => Ahead(book', a, b)
         /\ ~Resting(book, a) /\ Resting(book, b) /\ Ahead(book', a, b) =>
              orders'[a].price # orders'[b].price
<1>0. TypeOK /\ TypeOK' /\ RestsOnce
  BY DEF IndInv
<1>1. CASE UNCHANGED <<book, tradeId>>
  <2>1. Ahead(book', a, b) <=> Ahead(book, a, b)
    BY <1>1
  <2>2. Ahead(book, a, b) => Resting(book, a)
    BY <1>0, RestingIff DEF Ahead, TypeOK
  <2>3. QED
    BY <1>1, <2>1, <2>2 DEF Hit
<1>2. CASE Fill
  <2>1. Shrinks
    BY <1>2, FillEffect
  <2>2. LevelsKept
    BY <1>2, FillKeepsTerms DEF LevelsKept
  <2>3. QED
    BY <1>2, <2>1, <2>2, FillOrderKept, PriorityShrinks, FillHitsFirst
<1>3. CASE CancelResting \/ StartModify
  <2>1. /\ book' = cancelOrder(book, Cmd.id) /\ tradeId' = tradeId
        /\ \A id \in OrderId : id # Cmd.id => orders'[id] = orders[id]
    BY <1>0, <1>3 DEF CancelResting, StartModify, Take, TypeOK
  <2>2. /\ Shrinks
        /\ \A s \in Side, p \in Prices : \A i \in DOMAIN book'[s][p] : book'[s][p][i] # Cmd.id
    BY <1>0, <2>1, CancelBook
  <2>3. OrderKept
    BY <1>0, <2>1, CancelOrderKept
  <2>4. ~Resting(book', Cmd.id)
    <3>1. PICK c, bk : c = Cmd.id /\ bk = book'
      OBVIOUS
    <3>2. bk \in Book
      BY <1>0, <3>1 DEF TypeOK
    <3>3. \A s \in Side, p \in Prices : \A i \in DOMAIN bk[s][p] : bk[s][p][i] # c
      BY <2>2, <3>1
    <3>4. ~Resting(bk, c)
      BY <3>2, <3>3, RestingIff
    <3>5. QED
      BY <3>1, <3>4
  <2>5. LevelsKept
    BY <2>1, <2>4 DEF LevelsKept
  <2>6. ~Hit(b)
    BY <2>1 DEF Hit
  <2>7. QED
    BY <2>2, <2>3, <2>5, <2>6, PriorityShrinks
<1>4. CASE RestIncoming
  <2>1. ~Hit(b)
    BY <1>4 DEF RestIncoming, Hit
  <2>2. QED
    BY <1>4, <2>1, QueuesBehind, PriorityKept
<1>5. QED
  BY <1>1, <1>2, <1>3, <1>4
  DEF Next, WorkerStep, DbStep, SubmitNew, SubmitAmend, FetchBatch, RejectNew,
      AcceptNew, RejectUnknown, RejectCancel, EndMatch, SettleTrade, SkipTrade,
      RemoveIncoming, IncomingDone, RunOrderTask, RunTradeTask, Take, workerVars, vars

(* Price-time priority: no resting order is hit while another has priority  *)
(* over it, orders that stay keep their places, and a newcomer queues       *)
(* behind its level, cancels, modifies and partial fills included.          *)
THEOREM PriorityRespected == Spec => PriceTimePriority
<1>1. IndInv /\ IndInv' /\ [Next]_vars =>
        [\A a, b \in OrderId :
           /\ Ahead(book, a, b) =>
                /\ ~Hit(b)
                /\ Resting(book', a) /\ Resting(book', b) => Ahead(book', a, b)
           /\ ~Resting(book, a) /\ Resting(book, b) /\ Ahead(book', a, b) =>
                orders'[a].price # orders'[b].price]_vars
  BY PriorityStep
<1>2. QED
  BY <1>1, Safety, PTL DEF Spec, PriceTimePriority
=============================================================================
