\* docker mode whose stop command may fail, safety
SPECIFICATION Spec
CONSTANTS
    s1 = s1
    s2 = s2
    s3 = s3
    s4 = s4
    gA = gA
    gB = gB
    Sessions = {s1, s2, s4}
    Groups = {gA, gB}
    GroupOf <- MCGroupOf
    Promises = {p1, p2, p3}
    Runners = {r1, r2, r3}
    SingleProcess = FALSE
    StopMayFail = TRUE
    None = None
SYMMETRY Symmetry
INVARIANT OneRunnerPerSession
INVARIANT AttachedIsTracked
