CONSTANTS
  Creds <- MCCreds
  Payload <- MCPayload
  Sad <- MCSad
  Numbers <- MCNumbers
  Queries <- MCQueries
  MaxSaves = 3
  MaxCrashes = 1
SPECIFICATION FairSpec
CHECK_DEADLOCK FALSE
INVARIANTS DeletedIsUnindexed FindExact SortedPages
PROPERTY IndexedInTheEnd
