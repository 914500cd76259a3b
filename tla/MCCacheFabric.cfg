CONSTANTS
  Processes <- MCProcesses
  Threads <- MCThreads
  ProcessOf <- MCProcessOf
  CallsOf <- MCCallsOf
  MaxVersion = 1
  MaxCalls = 3
  MaxFaults = 1
SPECIFICATION Spec
INVARIANTS
  TypeOK
  ComputationsAreExclusive
  LeasesAreBacked
  InvalidationSticks
\* Callers may stop calling at any point.
CHECK_DEADLOCK FALSE
