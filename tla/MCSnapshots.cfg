SPECIFICATION Spec
CONSTANTS
  Prices = {p1, p2}
  CheckPeriod = 2
  MaxUpdates = 2
  MaxStream = 2
  MaxUnreadable = 1
  MaxTimers = 2
INVARIANTS TypeOK BookAsHeard CheckGoesOn StillSubscribed
CHECK_DEADLOCK FALSE
