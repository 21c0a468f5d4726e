\* Two tabs, two requests in flight.
CONSTANTS
  Tab = {"active", "pending"}
  PagesOf <- MCPagesOf
  Slot = {"s1", "s2"}
  MaxVersion = 1
  MaxMoves = 3
SPECIFICATION BothSpec
PROPERTIES
  RowsNeverBack
  RowsCatchUp
  UnauthorizedLeaves
  DroppedForCause
CHECK_DEADLOCK FALSE
