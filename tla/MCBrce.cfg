SPECIFICATION Spec
CONSTANTS
  caller1 = caller1
  caller2 = caller2
  service = service
  other = other
  Callers <- MCCallers
  Candidates <- MCCandidates
  Grants <- MCGrants
  Posts <- MCPosts
  Worlds <- MCWorlds
  Tokens <- MCTokens
  Altered <- MCAltered
  Ids <- MCOneId
  IdOf <- MCCollidingIds
  ValidSubjects <- MCSubjects
  NoValue = NoValue
  NoDimension = NoDimension
  NoKey = NoKey
  NoReservation = NoReservation
  NoReceipt = NoReceipt
  NoCarrier = NoCarrier
  NoSignal = NoSignal
  NoWorld = NoWorld
  MaxAttempts = 2
  MaxCarriers = 2
SYMMETRY MCSymmetry
INVARIANTS
  TypeOK
  ZeroUnreceiptedActuation
  OnlyAdmittedActuation
  DoneIsEarned
  AcknowledgedReceiptsAreFinal
  RecoveryHandlesAreDurable
  ReplayIsExact
PROPERTIES
  JournalIsAppendOnly
