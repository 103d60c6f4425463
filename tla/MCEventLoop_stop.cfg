SPECIFICATION FairSpec
CONSTANTS
  Posters = {p1, p2}
  MaxPosts = 4
  MaxStarts = 2
PROPERTY StopReturns
CHECK_DEADLOCK FALSE
