\* two calls at a time of one tool of each kind, two payloads, one preview,
\* two finished tasks on one page
SPECIFICATION Spec
CONSTANTS
    Tools = {"get_credits", "generate_image", "send_message", "run_task"}
    Payloads = {p1, p2}
    Calls = {c1, c2}
    Stamp <- MCStamp
    PageLimit = 2
    MaxRequests = 1
    MaxRows = 2
    MaxInbound = 1
    MaxCrashes = 1
    MaxExcuses = 1
    None = None
SYMMETRY Symmetry
INVARIANTS AppliedOncePerPreview ConfirmedAsShown   
CHECK_DEADLOCK FALSE
