SPECIFICATION IrcSpec
CONSTANTS
  Timeout = 1
  MaxLines = 3
  MaxTicks = 4
  MaxRead = 4
INVARIANT IrcTypeOK
INVARIANT LinesInOrder
PROPERTY HealthyStays
CHECK_DEADLOCK FALSE
