SPECIFICATION Spec
CONSTANTS
  Clients = {c1, c2}
  Sizes = {1, 2}
  MaxOrderValue = 2
  MaxDailyBuy = 2
  MaxActive = 1
  PerMinute = 1
  AllowShort = FALSE
  AllowMarket = FALSE
  InitialLevel = "off"
  Switched = {"off", "halt"}
  Minute = 1
  Position = 2
  MaxTime = 2
  Rows = {r1, r2, r3}
  MaxStarts = 1
SYMMETRY Symmetry
INVARIANTS TypeOK RateLimitHolds ActiveBounded  HaltBounded SellsCovered
CHECK_DEADLOCK FALSE
