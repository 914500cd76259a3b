SPECIFICATION Spec
CONSTANTS
  own = own
  foreign = foreign
  Observations <- MCFewObservations
  Identity = own
  UnitPrice = 2
  Currency = "USD"
  Sources <- MCSources
  Digests <- MCDigests
  CallerKeys <- MCCallerKeys
  Amounts <- MCAmounts
  Units <- MCUnits
  NoKey = NoKey
  NoEvent = NoEvent
  NoSource = NoSource
  NoDigest = NoDigest
  MaxU64 = 3
  MaxReceipts = 11
CHECK_DEADLOCK FALSE
INVARIANTS
  CreditsAreReceipted
