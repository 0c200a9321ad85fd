CONSTANTS
  Sources <- MCSources
  MaxChain = 3
  MaxPosts = 4
  MaxCrashes = 1
SPECIFICATION FairSpec
CHECK_DEADLOCK FALSE
INVARIANT StateQueryIsFresh
PROPERTIES StateQueryCompletes EventQueryCompletes
