SPECIFICATION FairSpec
CONSTANTS
    h1 = h1
    h2 = h2
    e1 = e1
    e2 = e2
    Channels = 2
    Async = {1, 2}
    Keys = 0
    Handler = {h1, h2}
    MaxDeliver = 2
    ErrorText = {e1}
    Env = {"publish", "db", "redeliver", "worker", "server"}
    MaxFaults = 1
    MaxResults = 1
PROPERTIES
    KeepsPromise
    TaskEnds
CHECK_DEADLOCK FALSE
