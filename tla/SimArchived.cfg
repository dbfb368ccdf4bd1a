SPECIFICATION Spec
CONSTANTS
  Kinds = {"cash"}
  Capital = 6
  Prices = {2, 3, 4}
  Bars <- FewBars
  Asks <- FewAsks
  Fee = 1
  Slip = 1
  Buffer = 0
  MarginDiv = 2
  MaxActive = 2
  MaxSessions = 2
  MaxUnits = 3
  MaxOrders = 1
  MaxTime = 1
  MaxStarts = 0
  DayOf <- TwoBarsADay
PROPERTY ArchivedIsReadOnly
CHECK_DEADLOCK FALSE
