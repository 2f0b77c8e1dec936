\* A second phase whose partition ends early and is named again before a commit.
SPECIFICATION Spec
CONSTANTS
  None = None
  Done = Done
  Ids = {1, 2}
  FirstIds = {1}
  UnboundedIds = {2}
  Starting = {2}
  Rows = 2
  Start = 1
  Limits = {4}
  MaxTurns = 1
  Backlog = 0
INVARIANTS
  StartsKept
CHECK_DEADLOCK FALSE
