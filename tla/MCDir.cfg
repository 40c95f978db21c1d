SPECIFICATION DirSpec
CONSTANTS
  MaxWalks = 2
  MaxEntries = 2
CHECK_DEADLOCK FALSE
INVARIANTS
  Exclusive
  CancelStops
  ReturnsMatches
PROPERTIES
  FollowsAgain
