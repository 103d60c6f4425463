SPECIFICATION FairSpec
CONSTANTS
  Main = main
  ExchangeThreads = {io1}
  OrderDelay = 1
  OppTimeout = 2
  StaleReads = {2}
  MaxShared = 1
  MaxOpps = 2
  MaxTime = 2
INVARIANTS TypeOK MapsConsistent PlannedMeansExecuted TimeoutIdsOwned PlannedHasNoTimeout
PROPERTIES Lifecycle ReportSettles
\* The model stops when both opportunities are through and the clock is at its bound.
CHECK_DEADLOCK FALSE
