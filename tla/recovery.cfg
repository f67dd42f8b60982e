SPECIFICATION ExchangeSpec
CONSTANTS
  alice = alice
  bob = bob
  Owners = {alice, bob}
  NoOrder = NoOrder
  MaxOrders = 3
  Prices <- TwoPrices
  Quantities = {1, 2}
  ClientOrders <- OffersAndBids
  QueueCapacity = 1
  BatchSize = 1
  AmendKinds = {"Cancel"}
  MaxAmends = 1
  MaxDbQueue = 1
  MaxRestarts = 1
INVARIANTS ExchangeTypeOK BookIntegrity RecoveredIdsFree ExchangeInv
CHECK_DEADLOCK FALSE
