SPECIFICATION LinkSpec
CONSTANTS
  alice = alice
  bob = bob
  w1 = w1
  w2 = w2
  Clients = {alice}
  NoClient = NoClient
  Registered = {alice}
  Workers = {w1}
  AppTypes = {"NewOrder", "Cancel"}
  MaxTasks = 1
  MaxIncrements = 1
  MaxConns = 1
  MaxSends = 2
  MaxHeartbeats = 0
  MaxRestarts = 0
INVARIANTS ExecutedInOrder LinkInv
CHECK_DEADLOCK FALSE
