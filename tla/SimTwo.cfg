SPECIFICATION Spec
CONSTANTS
  Kinds = {"cash", "short"}
  Capital = 10
  Prices = {2, 3, 4}
  Bars <- FewBars
  Asks <- FewAsks
  Fee = 1
  Slip = 1
  Buffer = 0
  MarginDiv = 2
  MaxActive = 2
  MaxSessions = 2
  MaxUnits = 3
  MaxOrders = 2
  MaxTime = 4
  MaxStarts = 1
  DayOf <- TwoBarsADay
INVARIANTS TypeOK ReservationsBacked ClosesCovered NotSoldEarly StoppedIsQuiet OneLiveSession
PROPERTIES TradesOnly
CHECK_DEADLOCK FALSE
