SPECIFICATION FairLinkSpec
CONSTANTS
  alice = alice
  bob = bob
  w1 = w1
  w2 = w2
  Clients = {alice}
  NoClient = NoClient
  Registered = {alice}
  Workers = {w1}
  AppTypes = {"Other", "MarketData"}
  MaxTasks = 2
  MaxIncrements = 1
  MaxConns = 1
  MaxSends = 1
  MaxHeartbeats = 0
  MaxRestarts = 1
INVARIANT TrailMatches
PROPERTIES Answered SessionsReleased
CHECK_DEADLOCK FALSE
