SPECIFICATION SetupSpec
CONSTANTS
  MaxRuns = 3
  MaxFaults = 1
INVARIANTS
  
  WiredWorks
CHECK_DEADLOCK FALSE
