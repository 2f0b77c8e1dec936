CONSTANTS
  asked = asked
  free = free
  Parts = {asked, free}
  OnDemand = {asked}
  Unbounded = {}
  Last <- MCLast
  RowsAt <- MCRowsAt
  Size <- MCSize
  Share = 4
  MaxRows = 1
  MaxTurns = 1
  Backlog = 3
SPECIFICATION Spec
INVARIANTS PositionHasRows AnswerComing DueTrue DoneTellsItsCursor NeverStuck
CHECK_DEADLOCK FALSE
