SPECIFICATION FairSpec
CONSTANTS
    MaxMessages = 2
    Kinds = {"chat", "task"}
    MaxTries = 1
    FaultKinds = {"crash"}
    MaxFaults = 1
    Setups <- MCDocker
PROPERTY TriggersAreSettled
