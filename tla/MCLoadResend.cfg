\* One run of two rows, two sessions, two commits each, each commit sent twice.
SPECIFICATION Spec
CONSTANTS
  Runs = {r1}
  Partitions = {p}
  Rows = 2
  Attempts = 2
  MaxEpoch = 2
  MaxSeq = 2
INVARIANTS
  TypeOK
  ExactlyOnce
  Acknowledged
  SucceededLoaded
PROPERTIES
  Delivers
CHECK_DEADLOCK FALSE
