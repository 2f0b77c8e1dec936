\* A second phase of two partitions that end, with little room for the state.
SPECIFICATION Spec
CONSTANTS
  None = None
  Done = Done
  Ids = {1, 2}
  FirstIds = {1}
  UnboundedIds = {}
  Starting = {2}
  Rows = 2
  Start = 1
  Limits = {2}
  MaxTurns = 0
  Backlog = 0
INVARIANTS
  MarkersOfThePlanStay
CHECK_DEADLOCK FALSE
