SPECIFICATION Spec
CONSTANTS
  Files <- HubOnly
INVARIANT FileIsRead
CHECK_DEADLOCK FALSE
