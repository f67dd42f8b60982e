------------------------------- MODULE Orders -------------------------------
(***************************************************************************)
(* The value types shared by the exchange: orders, trades and the commands *)
(* that clients send (common/Order.h, common/Trade.h, common/Types.h and   *)
(* the command classes of exchange_routing).                               *)
(*                                                                         *)
(* An order is identified by its core order id; the symbol, timestamp,     *)
(* client order id and session id of an order never influence matching and *)
(* are left out.  A price is an integer number of ticks.                   *)
(***************************************************************************)
EXTENDS Integers, Sequences, SequencesExt

CONSTANTS
  MaxOrders,    \* bound on the ids the order id generator hands out
  Prices,       \* the prices orders may carry, in ticks
  Quantities,   \* the quantities orders may carry
  Owners,       \* SenderCompIDs of the traders
  NoOrder       \* stands for "no order object" and "no row"

OrderId     == 1..MaxOrders
Side        == {"Buy", "Sell"}
OrderType   == {"Limit", "Market"}
OrderStatus == {"New", "PartiallyFilled", "Filled", "Cancelled"}

Order == [owner  : Owners,
          side   : Side,
          type   : OrderType,
          price  : Prices,
          orig   : Quantities,
          rem    : Nat,
          status : OrderStatus]

Trade == [id : Nat, buy : OrderId, sell : OrderId, qty : Nat, price : Prices]

(* The constructor of common::Order: nothing is filled yet.                *)
NewOrder(owner, side, type, price, qty) ==
  [owner |-> owner, side |-> side, type |-> type, price |-> price,
   orig |-> qty, rem |-> qty, status |-> "New"]

(* CommandType::NewOrder, CancelOrder and ModifyOrder.                     *)
Command ==
  [kind : {"New"},    id : OrderId, order : Order]
    \cup [kind : {"Cancel"}, id : OrderId]
    \cup [kind : {"Modify"}, id : OrderId, price : Prices, qty : Quantities]

Opposite(side) == IF side = "Buy" THEN "Sell" ELSE "Buy"

ASSUME OrdersAssumption ==
  /\ MaxOrders \in Nat
  /\ Prices \subseteq Int
  /\ Quantities \subseteq Nat
  /\ NoOrder \notin Order
=============================================================================
