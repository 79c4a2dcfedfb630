SPECIFICATION FairSpec
CONSTANTS
  irc = irc
  tox = tox
  Channels = {irc}
  MaxFd = 2
  MaxThreads = 3
  MaxReconnects = 1
  MaxBreaks = 2
INVARIANT OneKeeper
INVARIANT DiesOfAttempts
PROPERTY KeepsWorkingConnections
PROPERTY Recovers
PROPERTY DeadHubStops
CHECK_DEADLOCK FALSE
