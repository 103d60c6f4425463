SPECIFICATION Spec
CONSTANTS
  Main = main
  ExchangeThreads = {io1}
  OrderDelay = 1
  OppTimeout = 2
  StaleReads = {}
  MaxShared = 1
  MaxOpps = 1
  MaxTime = 3
INVARIANT CallbacksDoNotBlock
CHECK_DEADLOCK FALSE
