SPECIFICATION Spec
CONSTANTS
  irc = irc
  tox = tox
  file = file
  Channels = {irc, tox, file}
  Direction <- MCDirection
  NoMessage = NoMessage
  Spurious = FALSE
  MaxMessages = 1
INVARIANT WokenByMessage
CHECK_DEADLOCK FALSE
