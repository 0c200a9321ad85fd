CONSTANTS
  p1 = p1
  w1 = w1
  w2 = w2
  Delegatees <- MCOneDelegatee
  Wits <- MCTwoWits
  MaxEvents = 3
  MaxDisturbed = 2
  MaxApprovals = 2
  MaxCrashes = 1
  MaxRefusals = 1

SPECIFICATION FairSpec
CHECK_DEADLOCK FALSE

INVARIANTS
  OnceEscrowed
  NothingLost
  ApprovalSealsItsEvent
  SentIsWitnessed
  AuthorizerSealsItsEvent
PROPERTIES
  PromiseSpec
  DelegationCompletes
  ApprovedInceptionAccepted
