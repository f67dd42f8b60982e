SPECIFICATION LinkSpec
CONSTANTS
  alice = alice
  bob = bob
  w1 = w1
  w2 = w2
  Clients = {alice}
  NoClient = NoClient
  Registered = {alice}
  Workers = {w1}
  AppTypes = {"NewOrder", "MarketData"}
  MaxTasks = 1
  MaxIncrements = 0
  MaxConns = 1
  MaxSends = 2
  MaxHeartbeats = 0
  MaxRestarts = 0
INVARIANT NeverTooLow
CHECK_DEADLOCK FALSE
