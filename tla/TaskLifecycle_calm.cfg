SPECIFICATION Spec
CONSTANTS
    h1 = h1
    h2 = h2
    e1 = e1
    e2 = e2
    Channels = 3
    Async = {3}
    Keys = 2
    Handler = {h1, h2}
    MaxDeliver = 2
    ErrorText = {e1, e2}
    Env = {"publish"}
    MaxFaults = 2
    MaxResults = 2
INVARIANTS
    FailedIsRefunded
    DoneIsPaid
PROPERTIES
    DoneStays
CHECK_DEADLOCK FALSE
