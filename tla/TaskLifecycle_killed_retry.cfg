SPECIFICATION Spec
CONSTANTS
    h1 = h1
    h2 = h2
    e1 = e1
    e2 = e2
    Channels = 2
    Async = {}
    Keys = 0
    Handler = {h1}
    MaxDeliver = 2
    ErrorText = {e1}
    Env = {"redeliver"}
    MaxFaults = 1
    MaxResults = 2
INVARIANTS
    FailedIsRefunded
CHECK_DEADLOCK FALSE
