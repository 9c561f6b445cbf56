\* a question, an approval of each kind, a credential, everything once more
SPECIFICATION FairApprovals
CONSTANTS
    Questions = {q1}
    Installs = {i1}
    Additions = {m1}
    Credentials = {o1}
    MaxRepeats = 1
    MaxClicks = 1
    MaxRestarts = 1
    NoDecision = NoDecision
INVARIANTS   GrantsAreConsented
PROPERTY CredentialsAreSettled
CHECK_DEADLOCK FALSE
