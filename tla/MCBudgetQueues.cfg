\* Three requests for tables' records, small ones behind large ones, two cursors
\* and a read.
SPECIFICATION Spec
CONSTANTS
  a = a
  b = b
  c = c
  Requests <- TwoQueues
  Capacity = 64
  Sizes = {1, 2, 4}
INVARIANTS
  NoneForgotten
  InArrivalOrder
  Accounted
  SignalsTrue
CHECK_DEADLOCK FALSE
