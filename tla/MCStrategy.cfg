SPECIFICATION FairSpec
CONSTANTS
  a = a
  b = b
  Main = main
  Exchanges <- MCExchanges
  Quotes <- MCQuotes
  ResetInterval = 1
  MaxUpdates = 2
INVARIANTS TypeOK NotOlderThanReset
PROPERTY GapIsHanded
CHECK_DEADLOCK FALSE
