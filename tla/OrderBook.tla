------------------------------ MODULE OrderBook ------------------------------
(***************************************************************************)
(* The limit order book of one instrument (exchange_matching/OrderBook) and *)
(* the pre-trade checks that read it (exchange_risk/RiskManager), as        *)
(* operators on book values.                                               *)
(*                                                                         *)
(* bk["Buy"] is mBidMap and bk["Sell"] is mAskMap.  A price level is the    *)
(* deque of raw Order pointers at that price, here the sequence of ids; a   *)
(* level that the map does not hold is the empty sequence.                  *)
(***************************************************************************)
EXTENDS Orders

EmptyBook == [s \in Side |-> [p \in Prices |-> << >>]]

Book == [Side -> [Prices -> Seq(OrderId)]]

Levels(bk, side) == {p \in Prices : bk[side][p] # << >>}

Resting(bk, id) == \E s \in Side, p \in Prices : Contains(bk[s][p], id)

(* The key order of the two maps: the best bid is the highest, the best     *)
(* ask the lowest.                                                         *)
Better(side, p, q) == IF side = "Buy" THEN p > q ELSE p < q

(* p is restingMap->begin()->first.                                        *)
IsBest(bk, side, p) ==
  /\ p \in Levels(bk, side)
  /\ \A q \in Levels(bk, side) : ~Better(side, q, p)

(* Mutant of Crosses: the two comparisons are swapped.                      *)
MutCrosses(o, p) ==
  \/ o.type = "Market"
  \/ IF o.side = "Buy" THEN o.price <= p ELSE o.price >= p

(* An incoming order o may trade at an opposite level of price p.           *)
Crosses(o, p) ==
  \/ o.type = "Market"
  \/ IF o.side = "Buy" THEN o.price >= p ELSE o.price <= p

(* Mutant of insertOrder: push_front for push_back.                         *)
MutInsertOrder(bk, id, o) == [bk EXCEPT ![o.side][o.price] = <<id>> \o @]

insertOrder(bk, id, o) == [bk EXCEPT ![o.side][o.price] = Append(@, id)]

(* Bids, then asks, are searched for the id and the hit is erased.  An id   *)
(* rests at most once (BookIntegrity of module Partition).                  *)
cancelOrder(bk, id) ==
  [s \in Side |-> [p \in Prices |-> RemoveFirst(bk[s][p], id)]]

-----------------------------------------------------------------------------
(* RiskManager::preCheck.                                                   *)

ValidTerms(o) == o.orig > 0 /\ (o.type = "Limit" => o.price > 0)

(* Mutant of FatFinger: the deviation is taken from the order's own price.  *)
MutFatFinger(bk, o) ==
  /\ o.type = "Limit"
  /\ \E top \in Prices :
       /\ IsBest(bk, Opposite(o.side), top)
       /\ top > 0
       /\ 10 * (IF o.price > top THEN o.price - top ELSE top - o.price) > o.price

(* MAX_PRICE_DEVIATION is 10% of the best opposite price.                   *)
FatFinger(bk, o) ==
  /\ o.type = "Limit"
  /\ \E top \in Prices :
       /\ IsBest(bk, Opposite(o.side), top)
       /\ top > 0
       /\ 10 * (IF o.price > top THEN o.price - top ELSE top - o.price) > top

(* Mutant of SelfMatch: only the best opposite level is looked at.          *)
MutSelfMatch(bk, orders, o) ==
  \E p \in Prices :
    /\ IsBest(bk, Opposite(o.side), p)
    /\ Crosses(o, p)
    /\ \E i \in DOMAIN bk[Opposite(o.side)][p] :
         orders[bk[Opposite(o.side)][p][i]].owner = o.owner

(* Some order the incoming one could reach has the same SenderCompID.       *)
SelfMatch(bk, orders, o) ==
  \E p \in Levels(bk, Opposite(o.side)) :
    /\ Crosses(o, p)
    /\ \E i \in DOMAIN bk[Opposite(o.side)][p] :
         orders[bk[Opposite(o.side)][p][i]].owner = o.owner

preCheck(bk, orders, o) ==
  ValidTerms(o) /\ ~FatFinger(bk, o) /\ ~SelfMatch(bk, orders, o)
=============================================================================
