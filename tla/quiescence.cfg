SPECIFICATION FairSpec
CONSTANTS
  alice = alice
  bob = bob
  Owners = {alice, bob}
  NoOrder = NoOrder
  MaxOrders = 3
  Prices <- TwoPrices
  Quantities = {0, 1, 2}
  ClientOrders <- SellersAndBuyer
  QueueCapacity = 2
  BatchSize = 2
  AmendKinds = {"Cancel", "Modify"}
  MaxAmends = 1
  MaxDbQueue = 1
INVARIANT NewIdsFresh
PROPERTIES PriceTimePriority CancelAnswered Quiesces
CHECK_DEADLOCK FALSE
