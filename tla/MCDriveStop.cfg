\* A stop from outside that the deadline overtakes.
SPECIFICATION FairSpec
CONSTANTS
  Attempts = 2
  Work = 1
INVARIANTS
  ExternalStopIsStopped
CHECK_DEADLOCK FALSE
