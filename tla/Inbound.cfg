\* two bots, a group of the founder and a stranger, three messages, one
\* restart, one number that cannot be stored
SPECIFICATION Spec
CONSTANTS
    b1 = b1
    b2 = b2
    g = g
    w = w
    Web = w
    a1 = a1
    a2 = a2
    Bots = {b1, b2}
    Group = g
    Agents = {a1, a2}
    Wired <- MCWired
    Engages <- MCEngages
    Keepers = {a2}
    Choosy = {a2}
    Founder = founder
    Strangers = {s1}
    Policies = {"public", "request_approval"}
    UpdateIds = {1, 2}
    Traffic <- MCTraffic
    MaxMessages = 3
    MaxFaults = 1
    MaxCrashes = 1
    None = None
INVARIANTS OncePerAgent StrangersAreHeld TextsAreRead 
 
CHECK_DEADLOCK FALSE
