CONSTANTS
  c1 = c1
  c2 = c2
  m1 = m1
  Controllers <- MCControllers
  ManagedAids <- MCNoAid
  GroupAids <- MCNoAid
  MaxBoots = 1
  MaxInstances = 2
  None = None

SPECIFICATION FairSpec

PROPERTY ShutdownCompletes
