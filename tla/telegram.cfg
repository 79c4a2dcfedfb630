SPECIFICATION FairSpec
CONSTANTS
  Limit = 2
  MaxUpdates = 4
  MaxRestarts = 1
INVARIANT RunInOrder
PROPERTY FeedSpec
PROPERTY EventuallyPushed
CHECK_DEADLOCK FALSE
