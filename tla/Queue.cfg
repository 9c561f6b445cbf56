\* both runtimes, two messages of any kind, one fault
SPECIFICATION FairSpec
CONSTANTS
    MaxMessages = 2
    Kinds = {"chat", "context", "task", "clear"}
    MaxTries = 1
    FaultKinds = {"crash", "hang", "spawn"}
    MaxFaults = 1
    Setups <- MCSetups
INVARIANT RowsAreAccounted
PROPERTIES
    HandedOverWhenDue
    HungRunnerIsReplaced
    
\* single-process: a sweep that waits for a silent runner, with no message
\* left to arrive, has no step left
CHECK_DEADLOCK FALSE
