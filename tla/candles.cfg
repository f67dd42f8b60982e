SPECIFICATION MarketSpec
CONSTANTS
  eur = eur
  gbp = gbp
  Symbols = {eur}
  First = eur
  Aggregating = TRUE
  Levels = {20, 21, 30}
  Sizes = {1, 2}
  Clock = {3, 4, 5}
  MaxSessions = 1
  MaxInserts = 3
  MaxClicks = 0
INVARIANT CandlesReconcile
CHECK_DEADLOCK FALSE
