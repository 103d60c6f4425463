SPECIFICATION FairSpec
CONSTANTS
  Posters = {p1, p2}
  MaxPosts = 4
  MaxStarts = 2
INVARIANTS
  TypeOK
  QuietWhenStopped
  StopFinishesOne
PROPERTIES
  DeliversEvents
CHECK_DEADLOCK FALSE
