SPECIFICATION FairSpec
CONSTANTS
    s1 = s1
    s2 = s2
    Sessions = {s1, s2}
    MaxMessages = 3
    SessionOf <- MCSessionOf
    Silent = {2}
    MaxAttempts = 2
    FaultKinds = {"crash", "late", "hang", "refuse"}
    MaxFaults = 2
INVARIANTS
    ShownOnceInOrder
PROPERTIES
    ImplementsOutbox
    EveryMessageSettles
    
