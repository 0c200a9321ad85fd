CONSTANTS
  w1 = w1
  w2 = w2
  Wits <- MCTwoWits
  KeepToad = TRUE
  MaxEvents = 2
  MaxSubmits = 1
  MaxCrashes = 1
SPECIFICATION FairSpec
CHECK_DEADLOCK FALSE
INVARIANT SubmitDoneIsReceipted
PROPERTIES EnoughReceipts SubmitCompletes WitnesserDrains
