SPECIFICATION FairSpec
CONSTANTS
  irc = irc
  tox = tox
  file = file
  Channels = {irc, tox, file}
  Direction <- MCDirection
  NoMessage = NoMessage
  Spurious = TRUE
  MaxMessages = 2
INVARIANT QueueIsBacklog
INVARIANT HandedExactly
INVARIANT ActivationOrder
INVARIANT StopsInOrder
PROPERTY RelaySpec
PROPERTY BacklogDrains
PROPERTY StopReturnsOrHangs
PROPERTY AllOutputsOffered
CHECK_DEADLOCK FALSE
