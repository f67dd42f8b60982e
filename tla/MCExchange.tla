----------------------------- MODULE MCExchange -----------------------------
(* Small instances of Exchange for TLC.                                     *)
EXTENDS Exchange

CONSTANTS alice, bob

TwoPrices == {100, 105}

(* Offers of one unit, a bid for two and a market buy of two: levels of two  *)
(* orders, a partial fill and a complete one.                                *)
OffersAndBids ==
  {NewOrder(alice, "Sell", "Limit", p, 1) : p \in Prices}
    \cup {NewOrder(bob, "Buy", "Limit", 100, 2),
          NewOrder(bob, "Buy", "Market", 100, 2)}

(* Two offers and a bid that takes both and wants more.                      *)
SweepAndRest ==
  {NewOrder(alice, "Sell", "Limit", 100, 1), NewOrder(bob, "Buy", "Limit", 100, 3)}
=============================================================================
