CONSTANTS
  MaxUnrolls = 3
  MaxActivityFires = 4
  MaxNodeVisits = 2
  MaxMarkingStates = 4
  Models <- MCModels
  MaxEpochs = 2
  MaxRecords = 10
  Steps <- MCSteps
  MaxFaults = 1
SPECIFICATION Spec
PROPERTIES
  RejectedStepsLeaveTheLedgerResumable
\* Callers may stop at any point.
CHECK_DEADLOCK FALSE
