SPECIFICATION Spec
CONSTANTS
  alice = alice
  bob = bob
  Owners = {alice, bob}
  NoOrder = NoOrder
  MaxOrders = 3
  Prices <- TwoPrices
  Quantities = {0, 1, 2}
  ClientOrders <- SellersAndBuyer
  QueueCapacity = 1
  BatchSize = 1
  AmendKinds = {"Cancel", "Modify"}
  MaxAmends = 2
  MaxDbQueue = 1
INVARIANTS TypeOK BookIntegrity BookUncrossed ToldDoneIsDone RowsAreManaged IndInv RowsInv
PROPERTIES NoResurrection ImplementsLifecycle
CHECK_DEADLOCK FALSE
