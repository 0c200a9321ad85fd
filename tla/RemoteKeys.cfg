CONSTANTS
  s1 = s1
  s2 = s2
  r1 = r1
  SaltyAids <- MCTwoSalty
  RandyAids <- MCOneRandy
  MaxPass = 3
  MaxKills = 2
  None = None

SPECIFICATION FairSpec

INVARIANTS
  SavedPasscodeOpensKeys
PROPERTIES
  SaltsRecrypted
  RecoveryCompletes
