\* Two pushes, each lowered, that could wait for one another.
SPECIFICATION FairSpec
CONSTANTS
  a = a
  b = b
  c = c
  Requests <- TwoPushes
  Capacity = 64
  Sizes = {1, 16, 25}
INVARIANTS
  WithinShares
  Accounted
PROPERTIES
  Answered
CHECK_DEADLOCK FALSE
