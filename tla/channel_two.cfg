SPECIFICATION Spec
CONSTANTS
  irc = irc
  tox = tox
  Channels = {irc, tox}
  MaxFd = 3
  MaxThreads = 4
  MaxReconnects = 1
  MaxBreaks = 2
PROPERTY KeepsWorkingConnections
CHECK_DEADLOCK FALSE
