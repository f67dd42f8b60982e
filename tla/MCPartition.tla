----------------------------- MODULE MCPartition -----------------------------
(* Small instances of Partition for TLC.                                    *)
EXTENDS Partition

CONSTANTS alice, bob

OwnerSymmetry == Permutations(Owners)

(* 100 and 105 are within 10% of each other.  110 deviates from 100 by       *)
(* exactly 10%, which is allowed; 111 by more, though 100 is within 10% of   *)
(* 111.                                                                      *)
TwoPrices   == {100, 105}
ThreePrices == {100, 110, 111}

(* Every order over the instance's owners, prices and quantities.           *)
AllOrders ==
  {NewOrder(w, s, ty, p, q) :
     w \in Owners, s \in Side, ty \in OrderType, p \in Prices, q \in Quantities}

(* alice offers one unit at either price, bob bids for one unit below or two *)
(* units above, or buys two at the market: levels with two orders, sweeps    *)
(* over two levels and partial fills all occur.                              *)
SellersAndBuyer ==
  {NewOrder(alice, "Sell", "Limit", p, 1) : p \in Prices}
    \cup {NewOrder(bob, "Buy", "Limit", 105, 2),
          NewOrder(bob, "Buy", "Limit", 100, 1),
          NewOrder(bob, "Buy", "Market", 100, 2)}

(* One trader with an offer above its own bid.                              *)
OneTrader ==
  {NewOrder(alice, "Sell", "Limit", 105, 1), NewOrder(alice, "Buy", "Limit", 100, 1)}
=============================================================================
