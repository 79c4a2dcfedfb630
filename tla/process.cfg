SPECIFICATION FairSpec
CONSTANTS
  Files <- MCFiles
INVARIANT FilesAreRead
INVARIANT ShutdownIsOrderly
PROPERTY PlainFileEnds
CHECK_DEADLOCK FALSE
