\* Two runs of one pipeline that overlap, three sessions between them.
SPECIFICATION Spec
CONSTANTS
  Runs = {r1, r2}
  Partitions = {p}
  Rows = 1
  Attempts = 1
  MaxEpoch = 3
  MaxSeq = 1
SYMMETRY RunSymmetry
INVARIANTS
  ExactlyOnce
  CountedLanded
  CountedOnce
  NothingUncounted
  Inv
PROPERTIES
  LandsInOrder
CHECK_DEADLOCK FALSE
