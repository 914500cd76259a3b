CONSTANTS
  Processes <- MCProcesses
  Threads <- MCThreads
  ProcessOf <- MCProcessOf
  CallsOf <- MCReadersOf
  MaxVersion = 0
  MaxCalls = 3
  MaxFaults = 1
SPECIFICATION Spec
PROPERTIES
  CallsEnd
\* Callers may stop calling at any point.
CHECK_DEADLOCK FALSE
