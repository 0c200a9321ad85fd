CONSTANTS
  c1 = c1
  c2 = c2
  m1 = m1
  Controllers <- MCControllers
  ManagedAids <- MCOneAid
  GroupAids <- MCOneAid
  MaxBoots = 2
  MaxInstances = 2
  None = None

SPECIFICATION FairSpec

INVARIANTS
  OpenOnce
  CachedIsOpen
  RoutesLeadHome
  HaltedIsClean
PROPERTIES
  AcceptedBootPersists
  QuietShutdownCompletes
