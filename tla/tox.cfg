SPECIFICATION FairSpec
CONSTANTS
  ann = ann
  bob = bob
  Friends = {ann}
  Nicks <- MCNicks
  MaxLength = 3
  Width = 5
  Lengths <- MCLengths
  MaxSaid = 2
  MaxStarts = 2
INVARIANT FriendsSaved
INVARIANT NoEcho
INVARIANT SaidWhole
PROPERTY NothingForgotten
PROPERTY StopSaves
CHECK_DEADLOCK FALSE
