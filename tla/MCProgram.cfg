SPECIFICATION FairSpec
CONSTANTS
  N = 2
  Locks = 2
  MaxSignals = 2
INVARIANTS TypeOK ManagersOutliveThreads NoneLeftBehind
PROPERTIES SignalEnds SessionsKept
\* The process ends.
CHECK_DEADLOCK FALSE
