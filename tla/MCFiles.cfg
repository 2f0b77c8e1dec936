\* Sessions that overlap, and sessions one after another through power losses.
SPECIFICATION Spec
CONSTANTS
  s1 = s1
  s2 = s2
  Sessions = {s1, s2}
  Modes = {"overlap", "alone"}
  Kept = 1
  MaxEpochs = 2
  MaxParts = 3
  MaxSeq = 2
  MaxFaults = 2
SYMMETRY Interchangeable
INVARIANTS
  ReadersFindFiles
  AnsweredStays
  LeftoversGo
CHECK_DEADLOCK FALSE
