CONSTANTS
  r1 = r1
  c1 = c1
  w1 = w1
  w2 = w2
  Registries <- MCRegistries
  Creds <- MCOneCred
  RegistryOf <- MCRegistryOfOne
  Wits <- MCOneWit
  IsGroup = FALSE
  MaxEvents = 4
  MaxCrashes = 1
  None = None

SPECIFICATION FairSpec

INVARIANTS
  DisseminatedIsWitnessed
  EscrowedOnce
  NothingLost
PROPERTIES
  LifecycleSpec
  IssuanceCompletes
