SPECIFICATION MarketSpec
CONSTANTS
  eur = eur
  gbp = gbp
  Symbols = {eur, gbp}
  First = eur
  Aggregating = FALSE
  Levels = {20, 21, 30}
  Sizes = {1}
  Clock = {4}
  MaxSessions = 2
  MaxInserts = 2
  MaxClicks = 4
INVARIANTS MarketTypeOK NoOrphanSubscription BookConverges FeedInv
CHECK_DEADLOCK FALSE
