\* Every plan and policy, three attempts, two commits that move the load on.
SPECIFICATION FairSpec
CONSTANTS
  Attempts = 3
  Work = 2
INVARIANTS
  DriveTypeOK
  RetriesBounded
  SucceededTruly
  StopsAsAsked
PROPERTIES
  RunEnds
CHECK_DEADLOCK FALSE
