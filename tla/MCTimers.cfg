SPECIFICATION FairSpec
CONSTANTS
  Main = main
  Others = {io}
  Delays = {1, 2}
  MaxAdds = 2
  MaxTime = 3
INVARIANTS
  TypeOK
  IndexSound
  AccountedOnce
  PeriodicChain
PROPERTIES
  FiresInOrder
  DueFires
CHECK_DEADLOCK FALSE
