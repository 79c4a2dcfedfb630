SPECIFICATION HttpFairSpec
CONSTANTS
  MAX_BUF = 4
  W = 64
  Headers = {2, 3}
  Bodies = {0, 1, 2, 5, 9}
INVARIANT Fits
INVARIANT ReplyIsWhole
PROPERTY Ends
CHECK_DEADLOCK FALSE
