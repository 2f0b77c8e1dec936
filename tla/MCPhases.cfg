\* Two phases, two plans made again and a crash, with and without room for the state.
SPECIFICATION Spec
CONSTANTS
  None = None
  Done = Done
  Ids = {1, 2}
  FirstIds = {1}
  UnboundedIds = {2}
  Starting = {2}
  Rows = 2
  Start = 1
  Limits = {2, 4}
  MaxTurns = 2
  Backlog = 0
INVARIANTS
  RowsOnce
  OneReader
  SealsKeepTheirName
  PlacesBounded

  
CHECK_DEADLOCK FALSE
