\* Sessions that overlap, through a power loss.
SPECIFICATION Spec
CONSTANTS
  s1 = s1
  s2 = s2
  Sessions = {s1, s2}
  Modes = {"both"}
  Kept = 1
  MaxEpochs = 2
  MaxParts = 2
  MaxSeq = 2
  MaxFaults = 1
SYMMETRY Interchangeable
INVARIANTS
  TakenBackDecidesNothing
CHECK_DEADLOCK FALSE
