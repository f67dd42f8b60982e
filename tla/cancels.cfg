SPECIFICATION Spec
CONSTANTS
  alice = alice
  bob = bob
  Owners = {alice, bob}
  NoOrder = NoOrder
  MaxOrders = 3
  Prices <- ThreePrices
  Quantities = {1, 2}
  ClientOrders <- AllOrders
  QueueCapacity = 1
  BatchSize = 1
  AmendKinds = {"Cancel"}
  MaxAmends = 1
  MaxDbQueue = 1
SYMMETRY OwnerSymmetry
INVARIANTS NoSelfTrade TradesWithinLimits CollarHolds EveryTradePersisted TradesReconcile
CHECK_DEADLOCK FALSE
