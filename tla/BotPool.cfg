\* two bots, two founders with three companies, two setWebhook calls at a time
SPECIFICATION Spec
CONSTANTS
    g1 = g1
    g2 = g2
    g3 = g3
    u1 = u1
    u2 = u2
    Bots = {b1, b2}
    Groups = {g1, g2, g3}
    Users = {u1, u2}
    OwnerOf <- MCOwnerOf
    Calls = {c1, c2}
    Secrets = {x1, x2}
    MaxFaults = 1
    None = None
SYMMETRY Symmetry
INVARIANTS  HeardUnlessDisturbed
 
