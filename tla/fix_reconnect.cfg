SPECIFICATION LinkSpec
CONSTANTS
  alice = alice
  bob = bob
  w1 = w1
  w2 = w2
  Clients = {alice}
  NoClient = NoClient
  Registered = {alice}
  Workers = {w1}
  AppTypes = {}
  MaxTasks = 1
  MaxIncrements = 0
  MaxConns = 2
  MaxSends = 0
  MaxHeartbeats = 1
  MaxRestarts = 1
INVARIANTS LinkTypeOK NeverTooLow
CHECK_DEADLOCK FALSE
CONSTRAINT HeartbeatOrRestart
