SPECIFICATION BlotterSpec
CONSTANTS
  MaxOrders = 2
  Quantity = 2
  MaxPrice = 1
  MaxConnections = 1
  MaxReplacements = 2
INVARIANTS BlotterTypeOK ExposureNeverHidden  
CHECK_DEADLOCK FALSE
