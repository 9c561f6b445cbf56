\* single-process mode
SPECIFICATION FairSpec
CONSTANTS
    s1 = s1
    s2 = s2
    s3 = s3
    s4 = s4
    gA = gA
    gB = gB
    Sessions = {s1, s2, s3}
    Groups = {gA}
    GroupOf <- MCGroupOf
    Promises = {p1, p2, p3}
    Runners = {r1, r2}
    SingleProcess = TRUE
    StopMayFail = FALSE
    None = None
INVARIANTS
    WakesAreSound
    GroupTurnsExclusive
PROPERTIES
    TurnsInWakeOrder
    WakesResolve
