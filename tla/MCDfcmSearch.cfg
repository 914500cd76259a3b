SPECIFICATION Spec
CONSTANTS
  service = service
  other = other
  nosubject = nosubject
  Candidates <- MCCandidates
  Worlds <- MCWorlds
  MaxOffered = 3
  ValidSubjects <- MCSubjects
  NoValue = NoValue
  NoDimension = NoDimension
  NoKey = NoKey
INVARIANTS
  TypeOK
  FrontierIsMaximal
  FrontierIgnoresArrivalOrder
  UnknownNeverAdmits
  OfferKeepsTheFrontier
