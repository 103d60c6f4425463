SPECIFICATION Spec
CONSTANTS
  Main = main
  Others = {io}
  Delays = {1, 2}
  MaxAdds = 2
  MaxTime = 3
INVARIANT IdsUnique
CHECK_DEADLOCK FALSE
