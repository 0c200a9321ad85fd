CONSTANTS
  s1 = s1
  s2 = s2
  r1 = r1
  SaltyAids <- MCOneSalty
  RandyAids <- MCOneRandy
  MaxPass = 2
  MaxKills = 2
  None = None

SPECIFICATION Spec

PROPERTY RandyKeysRecrypted
