CONSTANTS
  grant = grant
  half = half
  lost = lost
  admit = admit
  void = void
  stale = stale
  apply = apply
  far = far
  Recipient = recipient
  Members <- MCMembers
  Msgs <- MCMsgs
  Signers <- MCSigners
  Threshold <- MCThreshold
  Kind <- MCKind
  Led <- MCLed
  Outcome <- MCOutcome
  MaxPosts = 1
  Bounds <- MCBounds
SPECIFICATION FairSpec
CHECK_DEADLOCK FALSE
INVARIANTS SentIsSigned NothingDropped
PROPERTY DoneIsCarriedOut
