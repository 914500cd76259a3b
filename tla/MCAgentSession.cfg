CONSTANTS
  MaxUnrolls = 3
  MaxActivityFires = 4
  MaxNodeVisits = 2
  MaxMarkingStates = 4
  Models <- MCModels
  MaxEpochs = 2
  MaxRecords = 10
  Steps <- MCSteps
  MaxFaults = 1
SPECIFICATION Spec
INVARIANTS
  TypeOK
  EpochsStayInLanguage
  OnlyBoundsStopATraversal
  SeededEpochsStayInLanguage
  LoopsAreCapped
  RecordsReplay
PROPERTIES
  WriteAhead
\* Callers may stop at any point, and must when the ledger cannot be resumed.
CHECK_DEADLOCK FALSE
