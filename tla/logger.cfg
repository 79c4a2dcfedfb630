SPECIFICATION FairSpec
CONSTANTS
  main = main
  poll = poll
  cerr = cerr
  other = other
  Threads = {main}
  Levels = {0, 1}
  Sinks = {cerr}
  MaxRepeats = 1
  MaxCalls = 2
  NoSink = NoSink
  NoMessage = NoMessage
INVARIANT PushedIsWritten
INVARIANT OnePlace
INVARIANT ProgramOrder
PROPERTY EventuallyWritten
PROPERTY ExitReturns
CHECK_DEADLOCK FALSE
