SPECIFICATION FairSpec
CONSTANTS
  MaxLines = 1
  MaxFd = 2
  MaxThreads = 3
  MaxReconnects = 1
  MaxFails = 3
INVARIANT LinesKept
INVARIANT OnlyLateAreLost
PROPERTY Recovers
CHECK_DEADLOCK FALSE
