SPECIFICATION FairSpec
CONSTANTS
  caller1 = caller1
  caller2 = caller2
  service = service
  other = other
  Callers <- MCCallers
  Candidates <- MCFewCandidates
  Grants <- MCFewGrants
  Posts <- MCFewPosts
  Worlds <- MCFewWorlds
  Tokens <- MCTokens
  Altered <- MCFewAltered
  Ids <- MCFewGrants
  IdOf <- MCDistinctIds
  ValidSubjects <- MCSubjects
  NoValue = NoValue
  NoDimension = NoDimension
  NoKey = NoKey
  NoReservation = NoReservation
  NoReceipt = NoReceipt
  NoCarrier = NoCarrier
  NoSignal = NoSignal
  NoWorld = NoWorld
  MaxAttempts = 2
  MaxCarriers = 2
PROPERTIES
  ImplementsLaw
  SealedCallsEnd
